---- MODULE Spec2Model ----
(***************************************************************************)
(* A model of the ETS remote file store: the Store (file_interface.py),    *)
(* the command protocol (file_protocol.py) and the two servers             *)
(* (file_server_multithreading.py, file_server_multiprocessing.py).        *)
(*                                                                         *)
(* Text is a sequence of one-character strings, file contents are          *)
(* sequences of byte values 0..255.                                        *)
(***************************************************************************)
EXTENDS Integers, Sequences, FiniteSets, TLC

(***************************************************************************)
(* Text helpers (Python str methods used by the sources).                  *)
(***************************************************************************)
Lowers == <<"a","b","c","d","e","f","g","h","i","j","k","l","m",
            "n","o","p","q","r","s","t","u","v","w","x","y","z">>

Uppers == <<"A","B","C","D","E","F","G","H","I","J","K","L","M",
            "N","O","P","Q","R","S","T","U","V","W","X","Y","Z">>

Digits == <<"0","1","2","3","4","5","6","7","8","9">>

Range(s) == {s[i] : i \in DOMAIN s}

\* str.isspace() for the characters of the model's alphabet
Whitespace == {" ", "\n", "\r", "\t"}

IndexIn(s, c) == IF c \in Range(s) THEN CHOOSE i \in DOMAIN s : s[i] = c ELSE 0

\* str.upper() / str.lower(), one character
UpperChar(c) == IF c \in Range(Lowers) THEN Uppers[IndexIn(Lowers, c)] ELSE c

LowerChar(c) == IF c \in Range(Uppers) THEN Lowers[IndexIn(Uppers, c)] ELSE c

Upper(s) == [i \in DOMAIN s |-> UpperChar(s[i])]

Lower(s) == [i \in DOMAIN s |-> LowerChar(s[i])]

\* str.strip(): drop leading and trailing whitespace
RECURSIVE LStrip(_)
LStrip(s) == IF s # <<>> /\ Head(s) \in Whitespace THEN LStrip(Tail(s)) ELSE s

RECURSIVE RStrip(_)
RStrip(s) ==
  IF s # <<>> /\ s[Len(s)] \in Whitespace THEN RStrip(SubSeq(s, 1, Len(s) - 1)) ELSE s

Strip(s) == RStrip(LStrip(s))

\* str.startswith(p)
StartsWith(s, p) == Len(s) >= Len(p) /\ SubSeq(s, 1, Len(p)) = p

\* c in s
Contains(s, c) == c \in Range(s)

(***************************************************************************)
(* base64.b64encode / base64.b64decode (standard alphabet, validate=False) *)
(***************************************************************************)
B64Alphabet == Uppers \o Lowers \o Digits \o <<"+", "/">>

B64Pad == "="

B64Char(v) == B64Alphabet[v + 1]

\* table_a2b_base64: the value of a character, 64 for a character outside the alphabet
B64Value(c) == IF c \in Range(B64Alphabet) THEN IndexIn(B64Alphabet, c) - 1 ELSE 64

RECURSIVE b64encode(_)
b64encode(b) ==
  IF Len(b) = 0 THEN <<>>
  ELSE IF Len(b) = 1 THEN
    <<B64Char(b[1] \div 4), B64Char((b[1] % 4) * 16), B64Pad, B64Pad>>
  ELSE IF Len(b) = 2 THEN
    <<B64Char(b[1] \div 4), B64Char((b[1] % 4) * 16 + b[2] \div 16),
      B64Char((b[2] % 16) * 4), B64Pad>>
  ELSE
    <<B64Char(b[1] \div 4), B64Char((b[1] % 4) * 16 + b[2] \div 16),
      B64Char((b[2] % 16) * 4 + b[3] \div 64), B64Char(b[3] % 64)>>
    \o b64encode(SubSeq(b, 4, Len(b)))

\* binascii.a2b_base64 in its non-strict mode: characters outside the alphabet are
\* skipped, a pad that completes a quad ends the data, and data that stops inside a
\* quad is an error.  st = [quad_pos, leftchar, pads, out]
RECURSIVE B64Scan(_, _)
B64Scan(s, st) ==
  IF s = <<>> THEN [ok |-> st.quad_pos = 0, bytes |-> st.out]
  ELSE LET c == Head(s)
           v == B64Value(c)
       IN IF c = B64Pad THEN
            IF st.quad_pos >= 2 /\ st.quad_pos + st.pads + 1 >= 4
              THEN [ok |-> TRUE, bytes |-> st.out]
              ELSE B64Scan(Tail(s),
                     [st EXCEPT !.pads = IF st.quad_pos >= 2 THEN @ + 1 ELSE @])
          ELSE IF v >= 64 THEN B64Scan(Tail(s), st)
          ELSE IF st.quad_pos = 0 THEN
            B64Scan(Tail(s), [st EXCEPT !.pads = 0, !.quad_pos = 1, !.leftchar = v])
          ELSE IF st.quad_pos = 1 THEN
            B64Scan(Tail(s), [st EXCEPT !.pads = 0, !.quad_pos = 2,
                                !.out = Append(@, st.leftchar * 4 + v \div 16),
                                !.leftchar = v % 16])
          ELSE IF st.quad_pos = 2 THEN
            B64Scan(Tail(s), [st EXCEPT !.pads = 0, !.quad_pos = 3,
                                !.out = Append(@, st.leftchar * 16 + v \div 4),
                                !.leftchar = v % 4])
          ELSE
            B64Scan(Tail(s), [st EXCEPT !.pads = 0, !.quad_pos = 0,
                                !.out = Append(@, st.leftchar * 64 + v),
                                !.leftchar = 0])

\* [ok |-> FALSE] stands for binascii.Error
b64decode(s) == B64Scan(s, [quad_pos |-> 0, leftchar |-> 0, pads |-> 0, out |-> <<>>])


(***************************************************************************)
(* Inputs of the model: file names, file contents, payloads.               *)
(***************************************************************************)
NameATxt == <<"a", ".", "t", "x", "t">>

\* a name without a dot
NameNoDot == <<"b">>

\* a name with a leading dot
NameHidden == <<".", "h">>

\* the name FileInterface.__init__ gives its directory
NameFiles == <<"f", "i", "l", "e", "s">>

Names == {NameATxt, NameNoDot, NameHidden, NameFiles}

\* the bytes of "hello"
BytesHello == <<104, 101, 108, 108, 111>>

BytesOther == <<255, 0>>

Contents == {BytesHello, BytesOther}

\* a payload that is no base64 text: one data character
PayloadBad == <<"a">>

\* base64 text with a character outside the alphabet in front
PayloadNoisy == <<"!", "a", "G", "k", "=">>

Payloads == {b64encode(b) : b \in Contents \cup {<<>>}} \cup {PayloadBad, PayloadNoisy}

(***************************************************************************)
(* The file system of one server process.  Every FileInterface() changes   *)
(* the working directory to files/ below the current one, so a directory   *)
(* is named by its depth below the directory the process started in:       *)
(* fs[d] maps the names of the regular files of the directory at depth d   *)
(* to their bytes, dirs is the depth of the deepest files/ directory made  *)
(* so far, and cwd[w] is the working directory of process w.               *)
(***************************************************************************)
VARIABLES fs, dirs, cwd, last

storeVars == <<fs, dirs, cwd, last>>

\* variant is the server that runs ("MT": file_server_multithreading.py, "MP":
\* file_server_multiprocessing.py); hist is the requests served so far, in order,
\* each with the envelope sent back
VARIABLES variant, hist

seqVars == <<variant, hist>>

\* Server.active_connections, Server.total_connections (stats['total_connections']
\* in the multithreading server); conns is the connections the listening socket has
\* handed out, in the order accept() returned them; acc is the place of the accept
\* loop of Server.run
VARIABLES active_connections, total_connections, conns, acc

concVars == <<active_connections, total_connections, conns, acc>>

\* sess is one admitted connection as its handler sees it (process_client, or
\* handle_client with receive_data_from_client and send_response_to_client);
\* peer is the client on the other end: the bytes it sends and what it does then
VARIABLES sess, peer

sessVars == <<sess, peer>>

\* cl is one call of the client's send_command; srv is the server as the current
\* attempt of that call meets it
VARIABLES cl, srv

clientVars == <<cl, srv>>

\* up is the upload calls that run at the same time, each at its own statement of
\* FileInterface.upload; bench is one run of run_stress_test of file_stresstest.py;
\* ts is one connection of time_server.py as handle_client sees it
VARIABLES up, bench, ts

\* rsp is one response on its way from the server that built it, character by
\* character, to the client that reads and decodes it
VARIABLES rsp

auxVars == <<up, bench, ts, rsp>>

\* deepest directory the model lets a process enter
MaxDepth == 4

Depths == 0 .. MaxDepth

EmptyDir == [n \in {} |-> <<>>]

\* the envelope dictionaries of file_interface.py; keys is the set of keys of the
\* dictionary, and a key that is absent holds the empty value
ErrorEnv(msg, name) ==
  [status |-> "ERROR", keys |-> {"status", "data"}, data |-> <<msg, name>>,
   data_list |-> {}, data_namafile |-> <<>>, data_file |-> <<>>]

OkEnv(msg, name) ==
  [status |-> "OK", keys |-> {"status", "data"}, data |-> <<msg, name>>,
   data_list |-> {}, data_namafile |-> <<>>, data_file |-> <<>>]

ListEnv(filelist) ==
  [status |-> "OK", keys |-> {"status", "data"}, data |-> <<>>,
   data_list |-> filelist, data_namafile |-> <<>>, data_file |-> <<>>]

FileEnv(name, isifile) ==
  [status |-> "OK", keys |-> {"status", "data_namafile", "data_file"}, data |-> <<>>,
   data_list |-> {}, data_namafile |-> name, data_file |-> isifile]

NoEnv ==
  [status |-> "NONE", keys |-> {}, data |-> <<>>,
   data_list |-> {}, data_namafile |-> <<>>, data_file |-> <<>>]

\* Text written to a connection is a sequence of pieces: json.dumps(cl) is the
\* braces around the members of the dictionary, and each character of the
\* terminator is a piece of its own.
Piece(t, env) == [tok |-> t, env |-> env]

\* json.dumps(cl)
JsonText(env) == <<Piece("{", NoEnv), Piece("members", env), Piece("}", NoEnv)>>

\* "\r\n\r\n"
Terminator ==
  <<Piece("\r", NoEnv), Piece("\n", NoEnv), Piece("\r", NoEnv), Piece("\n", NoEnv)>>

\* the directory files/ exists below the directory at depth d
HasSubdir(ds, d) == d < ds

\* name is a directory of the directory at depth d
IsDir(ds, d, name) == name = NameFiles /\ HasSubdir(ds, d)

\* os.path.exists(name) in the directory at depth d
PathExists(f, ds, d, name) == name \in DOMAIN f[d] \/ IsDir(ds, d, name)

\* glob('*.*'): the names with a dot that do not start with a dot
GlobStarDotStar(name) == Contains(name, ".") /\ Head(name) # "."

\* mutant: a file that exists is left as it is
WriteFile_Keep(f, d, name, data) ==
  [f EXCEPT ![d] = [n \in DOMAIN f[d] \cup {name} |->
     IF n \in DOMAIN f[d] THEN f[d][n] ELSE data]]

\* mutant: the file is opened with 'ab', so an upload appends to what is there
WriteFile_Append(f, d, name, data) ==
  [f EXCEPT ![d] = [n \in DOMAIN f[d] \cup {name} |->
     IF n = name THEN (IF name \in DOMAIN f[d] THEN f[d][name] ELSE <<>>) \o data
     ELSE f[d][n]]]

\* open(name, 'wb'); f.write(data)
WriteFile(f, d, name, data) ==
  [f EXCEPT ![d] = [n \in DOMAIN f[d] \cup {name} |-> IF n = name THEN data ELSE f[d][n]]]

\* os.remove(name)
RemoveFile(f, d, name) ==
  [f EXCEPT ![d] = [n \in DOMAIN f[d] \ {name} |-> f[d][n]]]

ListedNames(f, d) == {n \in DOMAIN f[d] : GlobStarDotStar(n)}

\* FileInterface.list: the result and the file system it leaves
FileInterface_list(f, ds, d, params) ==
  [env |-> ListEnv(ListedNames(f, d)), fs |-> f]

GetFound(f, ds, d, filename) ==
  IF IsDir(ds, d, filename)
    THEN ErrorEnv("IsADirectoryError", filename)
    ELSE FileEnv(filename, b64encode(f[d][filename]))

\* FileInterface.get
FileInterface_get(f, ds, d, params) ==
  [env |-> IF Len(params) = 0 THEN ErrorEnv("Nama file tidak disediakan", <<>>)
           ELSE IF params[1] = <<>> THEN ErrorEnv("Nama file kosong", <<>>)
           ELSE IF ~PathExists(f, ds, d, params[1])
             THEN ErrorEnv("File tidak ditemukan", params[1])
           ELSE GetFound(f, ds, d, params[1]),
   fs |-> f]

\* mutant: delete without the os.path.exists check, reporting success for any name
FileInterface_delete_NoCheck(f, ds, d, params) ==
  IF Len(params) = 0 THEN [env |-> ErrorEnv("Nama file tidak disediakan", <<>>), fs |-> f]
  ELSE IF params[1] = <<>> THEN [env |-> ErrorEnv("Nama file kosong", <<>>), fs |-> f]
  ELSE [env |-> OkEnv("File berhasil dihapus", params[1]),
        fs |-> RemoveFile(f, d, params[1])]

\* FileInterface.delete
FileInterface_delete(f, ds, d, params) ==
  IF Len(params) = 0 THEN [env |-> ErrorEnv("Nama file tidak disediakan", <<>>), fs |-> f]
  ELSE IF params[1] = <<>> THEN [env |-> ErrorEnv("Nama file kosong", <<>>), fs |-> f]
  ELSE IF ~PathExists(f, ds, d, params[1])
    THEN [env |-> ErrorEnv("File tidak ditemukan", params[1]), fs |-> f]
  ELSE IF IsDir(ds, d, params[1])
    THEN [env |-> ErrorEnv("IsADirectoryError", params[1]), fs |-> f]
  ELSE [env |-> OkEnv("File berhasil dihapus", params[1]),
        fs |-> RemoveFile(f, d, params[1])]

\* upload's check of the payload before it decodes it
PayloadRejected(filedata_base64) == filedata_base64 = <<>>

\* FileInterface.upload
FileInterface_upload(f, ds, d, params) ==
  IF Len(params) < 2 THEN [env |-> ErrorEnv("Parameter upload tidak lengkap", <<>>), fs |-> f]
  ELSE IF params[1] = <<>> THEN [env |-> ErrorEnv("Nama file kosong", <<>>), fs |-> f]
  ELSE IF PayloadRejected(params[2]) THEN [env |-> ErrorEnv("Data file kosong", <<>>), fs |-> f]
  ELSE IF ~b64decode(params[2]).ok
    THEN [env |-> ErrorEnv("Data base64 tidak valid", <<>>), fs |-> f]
  ELSE IF IsDir(ds, d, params[1])
    THEN [env |-> ErrorEnv("IsADirectoryError", params[1]), fs |-> f]
  ELSE [env |-> OkEnv("File berhasil diupload", params[1]),
        fs |-> WriteFile(f, d, params[1], b64decode(params[2]).bytes)]

(***************************************************************************)
(* file_protocol.py: FileProtocol.proses_string                            *)
(***************************************************************************)
RECURSIVE SplitSpace_All(_, _, _)
SplitSpace_All(s, maxsplit, cur) ==
  IF s = <<>> THEN <<cur>>
  ELSE IF Head(s) = " "
    THEN <<cur>> \o SplitSpace_All(Tail(s), maxsplit, <<>>)
    ELSE SplitSpace_All(Tail(s), maxsplit, Append(cur, Head(s)))

\* str.split(' ', maxsplit): cut at single spaces, at most maxsplit times
RECURSIVE SplitSpace(_, _, _)
SplitSpace(s, maxsplit, cur) ==
  IF s = <<>> THEN <<cur>>
  ELSE IF Head(s) = " " /\ maxsplit > 0
    THEN <<cur>> \o SplitSpace(Tail(s), maxsplit - 1, <<>>)
    ELSE SplitSpace(Tail(s), maxsplit, Append(cur, Head(s)))

ShlexQuotes == {"'", "\""}

ShlexEscape == "\\"

\* shlex.split(s): shlex in POSIX mode with whitespace_split and no comments.
\* state is "none" between tokens, "a" inside a word, a quote character inside
\* quotes, "escape" after a backslash (back is the state to return to).
\* [ok |-> FALSE] stands for ValueError (no closing quotation, no escaped character).
RECURSIVE ShlexScan(_, _, _, _, _)
ShlexScan(s, state, back, token, out) ==
  IF s = <<>> THEN
    IF state \in ShlexQuotes \/ state = "escape" THEN [ok |-> FALSE, parts |-> <<>>]
    ELSE IF state = "a" THEN [ok |-> TRUE, parts |-> Append(out, token)]
    ELSE [ok |-> TRUE, parts |-> out]
  ELSE LET c == Head(s)
           r == Tail(s)
       IN IF state = "none" THEN
            IF c \in Whitespace THEN ShlexScan(r, "none", back, <<>>, out)
            ELSE IF c = ShlexEscape THEN ShlexScan(r, "escape", "a", <<>>, out)
            ELSE IF c \in ShlexQuotes THEN ShlexScan(r, c, back, <<>>, out)
            ELSE ShlexScan(r, "a", back, <<c>>, out)
          ELSE IF state = "a" THEN
            IF c \in Whitespace THEN ShlexScan(r, "none", back, <<>>, Append(out, token))
            ELSE IF c = ShlexEscape THEN ShlexScan(r, "escape", "a", token, out)
            ELSE IF c \in ShlexQuotes THEN ShlexScan(r, c, back, token, out)
            ELSE ShlexScan(r, "a", back, Append(token, c), out)
          ELSE IF state = "escape" THEN
            IF back \in ShlexQuotes /\ c # ShlexEscape /\ c # back
              THEN ShlexScan(r, back, back, token \o <<ShlexEscape, c>>, out)
              ELSE ShlexScan(r, back, back, Append(token, c), out)
          ELSE \* inside quotes
            IF c = state THEN ShlexScan(r, "a", back, token, out)
            ELSE IF c = ShlexEscape /\ state = "\""
              THEN ShlexScan(r, "escape", state, token, out)
            ELSE ShlexScan(r, state, back, Append(token, c), out)

shlex_split(s) == ShlexScan(s, "none", "none", <<>>, <<>>)

VerbUpload == <<"u", "p", "l", "o", "a", "d">>

VerbList == <<"l", "i", "s", "t">>

VerbGet == <<"g", "e", "t">>

VerbDelete == <<"d", "e", "l", "e", "t", "e">>

\* attributes every object has; calling one with the parameter list raises, or
\* gives a value json.dumps cannot serialise
ObjectAttributes ==
  {<<"_", "_", "i", "n", "i", "t", "_", "_">>,
   <<"_", "_", "c", "l", "a", "s", "s", "_", "_">>}

HasAttr_Any(command) == TRUE

\* hasattr(self.file, command)
HasAttr(command) ==
  command \in {VerbList, VerbGet, VerbDelete, VerbUpload} \cup ObjectAttributes

\* method = getattr(self.file, command); cl = method(params); json.dumps(cl)
CallMethod(f, ds, d, command, params) ==
  IF command = VerbList THEN FileInterface_list(f, ds, d, params)
  ELSE IF command = VerbGet THEN FileInterface_get(f, ds, d, params)
  ELSE IF command = VerbDelete THEN FileInterface_delete(f, ds, d, params)
  ELSE IF command = VerbUpload THEN FileInterface_upload(f, ds, d, params)
  ELSE [env |-> ErrorEnv("request tidak dikenali", <<>>), fs |-> f]

Dispatch(f, ds, d, command, params) ==
  IF ~HasAttr(command)
    THEN [env |-> ErrorEnv("Command tidak dikenali", command), fs |-> f]
    ELSE CallMethod(f, ds, d, command, params)

ProsesUpload(f, ds, d, s) ==
  LET parts == SplitSpace(s, 2, <<>>)
  IN IF Len(parts) < 3
       THEN [env |-> ErrorEnv("Format UPLOAD tidak valid", <<>>), fs |-> f]
       ELSE Dispatch(f, ds, d, Lower(parts[1]), <<parts[2], parts[3]>>)

ProsesOther_CaseSensitive(f, ds, d, s) ==
  LET sp == shlex_split(s)
  IN IF ~sp.ok THEN [env |-> ErrorEnv("request tidak dikenali", <<>>), fs |-> f]
     ELSE IF sp.parts = <<>> THEN [env |-> ErrorEnv("perintah kosong", <<>>), fs |-> f]
     ELSE Dispatch(f, ds, d, sp.parts[1], Tail(sp.parts))

ProsesOther_NoEmptyCheck(f, ds, d, s) ==
  LET sp == shlex_split(s)
  IN IF ~sp.ok THEN [env |-> ErrorEnv("request tidak dikenali", <<>>), fs |-> f]
     ELSE IF sp.parts = <<>> THEN Dispatch(f, ds, d, <<>>, <<>>)
     ELSE Dispatch(f, ds, d, Lower(sp.parts[1]), Tail(sp.parts))

ProsesOther(f, ds, d, s) ==
  LET sp == shlex_split(s)
  IN IF ~sp.ok THEN [env |-> ErrorEnv("request tidak dikenali", <<>>), fs |-> f]
     ELSE IF sp.parts = <<>> THEN [env |-> ErrorEnv("perintah kosong", <<>>), fs |-> f]
     ELSE Dispatch(f, ds, d, Lower(sp.parts[1]), Tail(sp.parts))

\* FileProtocol.proses_string on the directory at depth d: the envelope it returns
\* and the file system it leaves
proses_string(f, ds, d, string_datamasuk) ==
  LET s == Strip(string_datamasuk)
  IN IF StartsWith(Upper(s), Upper(VerbUpload))
       THEN ProsesUpload(f, ds, d, s)
       ELSE ProsesOther(f, ds, d, s)

\* FileInterface.__init__ called in the directory at depth d: makes files/ when no
\* such path exists and enters it; raised when files is a regular file
FileInterface_init(f, ds, d) ==
  IF NameFiles \in DOMAIN f[d] THEN [raised |-> TRUE, dirs |-> ds, cwd |-> d]
  ELSE [raised |-> FALSE, dirs |-> IF HasSubdir(ds, d) THEN ds ELSE d + 1, cwd |-> d + 1]

\* the state of the variables a specification does not use
LastOff == last = [op |-> "none", params |-> <<>>, env |-> NoEnv, before |-> EmptyDir]

SeqOff == variant = "none" /\ hist = <<>>

SessOff ==
  /\ sess = [pc |-> "off"]
  /\ peer = [mode |-> "off"]

ClientOff ==
  /\ cl = [pc |-> "off"]
  /\ srv = [mode |-> "off"]

UpOff == up = <<>>

BenchOff == bench = [pc |-> "off"]

TsOff == ts = [pc |-> "off"]

RspOff == rsp = [pc |-> "off"]

AuxOff == UpOff /\ BenchOff /\ TsOff /\ RspOff

ConcOff ==
  /\ active_connections = 0
  /\ total_connections = 0
  /\ conns = <<>>
  /\ acc = [pc |-> "off", tmp |-> 0]

(***************************************************************************)
(* SpecStore: the methods of one FileInterface object called in any order  *)
(* on its directory (depth 1), with or without a files/ directory below.   *)
(***************************************************************************)
GetParams == {<<>>} \cup {<<n>> : n \in Names \cup {<<>>}}

UploadParams ==
  {<<n>> : n \in {NameATxt}} \cup {<<n, p>> : n \in Names \cup {<<>>}, p \in Payloads}

StoreInit ==
  /\ fs = [d \in Depths |-> EmptyDir]
  /\ dirs \in {1, 2}
  /\ cwd = [w \in {1} |-> 1]
  /\ last = [op |-> "none", params |-> <<>>, env |-> NoEnv, before |-> EmptyDir]
  /\ SeqOff
  /\ ConcOff
  /\ SessOff
  /\ ClientOff
  /\ AuxOff

StoreCall(op, params, r) ==
  /\ fs' = r.fs
  /\ last' = [op |-> op, params |-> params, env |-> r.env, before |-> fs[cwd[1]]]
  /\ UNCHANGED <<dirs, cwd, seqVars, concVars, sessVars, clientVars, auxVars>>

StoreList == StoreCall("list", <<>>, FileInterface_list(fs, dirs, cwd[1], <<>>))

StoreGet == \E p \in GetParams : StoreCall("get", p, FileInterface_get(fs, dirs, cwd[1], p))

StoreDelete ==
  \E p \in GetParams : StoreCall("delete", p, FileInterface_delete(fs, dirs, cwd[1], p))

StoreUpload ==
  \E p \in UploadParams : StoreCall("upload", p, FileInterface_upload(fs, dirs, cwd[1], p))

StoreNext == StoreList \/ StoreGet \/ StoreDelete \/ StoreUpload

vars == <<storeVars, seqVars, concVars, sessVars, clientVars, auxVars>>

SpecStore == StoreInit /\ [][StoreNext]_vars


(***************************************************************************)
(* SpecProto: FileProtocol.proses_string applied to request strings built  *)
(* from a verb and what follows it, on a directory holding some files.     *)
(***************************************************************************)
\* verbs that name nothing the Store has
VerbBogus == <<"B", "O", "G", "U", "S">>

VerbUploadX == <<"U", "p", "l", "o", "a", "d", "X">>

VerbLists == <<"l", "i", "s", "t", "s">>

\* verbs that name attributes every object has
VerbInit == <<"_", "_", "i", "n", "i", "t", "_", "_">>

VerbClass == <<"_", "_", "C", "L", "A", "S", "S", "_", "_">>

UnknownVerbs == {VerbBogus, VerbUploadX, VerbLists, VerbInit, VerbClass}

\* the verbs of the Store, as a client may spell them
StoreVerbs == {Upper(VerbList), <<"G", "e", "t">>, <<"d", "e", "l", "e", "t", "e">>, Upper(VerbUpload)}

\* requests of whitespace only
Blanks == {<<>>, <<" ">>, <<"\t", "\n">>, <<" ", "\r", "\n", "\r", "\n">>}

\* a payload with a space, a quote and a backslash in it
PayloadQuoted == <<"a", " ", "'", "G", "\\", "k", "=">>

\* the filename and the payload of an upload request
UploadArgs ==
  [f : {NameNoDot, NameATxt}, p : {PayloadQuoted, b64encode(BytesHello), <<>>}]

\* ' f p'
UploadTail(a) == <<" ">> \o a.f \o <<" ">> \o a.p

\* what follows the verb
ProtoTails ==
  {<<>>, <<" ">> \o NameATxt, <<" ">> \o NameNoDot, <<" ", "'">>,
   <<" ">> \o NameNoDot \o <<" ">> \o b64encode(BytesOther), <<"\n">>}

\* the directories the requests are served on
ProtoStores ==
  {[n \in D |-> BytesHello] : D \in SUBSET {NameATxt, NameNoDot}}

ProtoInit ==
  /\ \E st \in ProtoStores : fs = [d \in Depths |-> IF d = 1 THEN st ELSE EmptyDir]
  /\ dirs = 1
  /\ cwd = [w \in {1} |-> 1]
  /\ LastOff
  /\ SeqOff
  /\ ConcOff
  /\ SessOff
  /\ ClientOff
  /\ AuxOff

\* hasil = fp.proses_string(verb + tail)
ProtoCall(verb, tail) ==
  LET r == proses_string(fs, dirs, cwd[1], verb \o tail)
  IN /\ fs' = r.fs
     /\ last' = [op |-> "proses_string", params |-> <<verb, tail>>, env |-> r.env,
                 before |-> fs[cwd[1]]]
     /\ UNCHANGED <<dirs, cwd, seqVars, concVars, sessVars, clientVars, auxVars>>

ProtoUnknown == \E verb \in UnknownVerbs, tail \in ProtoTails : ProtoCall(verb, tail)

ProtoKnown == \E verb \in StoreVerbs, tail \in ProtoTails : ProtoCall(verb, tail)

ProtoBlank == \E blank \in Blanks : ProtoCall(<<>>, blank)

\* hasil = fp.proses_string('UPLOAD f p')
ProtoUpload == \E a \in UploadArgs : ProtoCall(Upper(VerbUpload), UploadTail(a))

\* a filename with a space in it
NameSpaced == <<"m", " ", "y">>

\* the filename in double quotes, in single quotes, and with the closing quote
\* missing
QuotedTails ==
  {<<" ", "\"">> \o NameSpaced \o <<"\"">>,
   <<" ", "'">> \o NameSpaced \o <<"'">>,
   <<" ", "\"">> \o NameSpaced}

\* command_str = f"UPLOAD {basename} {filedata}" of remote_upload for the file
\* named NameSpaced that holds BytesHello
SpacedUploadTail == <<" ">> \o NameSpaced \o <<" ">> \o b64encode(BytesHello)

\* hasil = fp.proses_string(...) for a filename with a space
ProtoSpaced ==
  \/ \E verb \in {Upper(VerbGet), Upper(VerbDelete)}, tail \in QuotedTails :
       ProtoCall(verb, tail)
  \/ ProtoCall(Upper(VerbUpload), SpacedUploadTail)

ProtoNext == ProtoUnknown \/ ProtoKnown \/ ProtoBlank \/ ProtoUpload \/ ProtoSpaced

SpecProto == ProtoInit /\ [][ProtoNext]_vars

(***************************************************************************)
(* SpecSeq: one running server answers requests one after the other, each  *)
(* on a connection of its own that the client half-closes after sending,   *)
(* so that the server receives the request whole.                          *)
(***************************************************************************)
\* requests served in one run of the model
MaxRequests == 4

\* worker processes of the pool in SpecSeq
SeqWorkers == 2

ReqUploadA ==
  <<"U", "P", "L", "O", "A", "D", " ">> \o NameATxt \o <<" ">> \o b64encode(BytesHello)

ReqGetA == <<"G", "E", "T", " ">> \o NameATxt

ReqDeleteA == <<"D", "E", "L", "E", "T", "E", " ">> \o NameATxt

ReqList == <<"L", "I", "S", "T">>

ReqUploadFiles ==
  <<"u", "p", "l", "o", "a", "d", " ">> \o NameFiles \o <<" ">> \o b64encode(BytesOther)

SeqRequests == {ReqUploadA, ReqGetA, ReqDeleteA, ReqList, ReqUploadFiles}

\* the envelope built when FileProtocol() or proses_string raises
ProcessingErrorEnv == ErrorEnv("Processing error", <<>>)

\* fp = FileProtocol(); hasil = fp.proses_string(command_str) in the process whose
\* working directory is at depth d: what is sent back and what is left behind
ProcessCommand(f, ds, d, full_data) ==
  LET init == FileInterface_init(f, ds, d)
      r == proses_string(f, init.dirs, init.cwd, Strip(full_data))
  IN IF init.raised
       THEN [env |-> ProcessingErrorEnv, fs |-> f, dirs |-> ds, cwd |-> d]
       ELSE [env |-> r.env, fs |-> r.fs, dirs |-> init.dirs, cwd |-> init.cwd]

SeqInit ==
  /\ variant \in {"MT", "MP"}
  /\ hist = <<>>
  /\ fs = [d \in Depths |-> EmptyDir]
  /\ dirs = 0
  /\ cwd = [w \in 1 .. SeqWorkers |-> 0]
  /\ LastOff
  /\ ConcOff
  /\ SessOff
  /\ ClientOff
  /\ AuxOff

SeqServe(w, req) ==
  LET r == ProcessCommand(fs, dirs, cwd[w], req)
  IN /\ Len(hist) < MaxRequests
     /\ cwd[w] < MaxDepth
     /\ fs' = r.fs
     /\ dirs' = r.dirs
     /\ cwd' = [cwd EXCEPT ![w] = r.cwd]
     /\ hist' = Append(hist, [req |-> req, env |-> r.env])
     /\ UNCHANGED <<variant, last, concVars, sessVars, clientVars, auxVars>>

\* file_server_multithreading.py: process_client runs in a thread of the server process
SeqServeMT == variant = "MT" /\ \E req \in SeqRequests : SeqServe(1, req)

\* file_server_multiprocessing.py: process_client_task runs in a process of the pool
SeqServeMP ==
  variant = "MP" /\ \E w \in 1 .. SeqWorkers : \E req \in SeqRequests : SeqServe(w, req)

SeqNext == SeqServeMT \/ SeqServeMP

SpecSeq == SeqInit /\ [][SeqNext]_vars

(***************************************************************************)
(* Claims about requests served in sequence, checked under SpecSeq.        *)
(***************************************************************************)
\* a.txt was uploaded by request i and not deleted by a request between i and j
UploadedAndKept(i, j) ==
  /\ i < j
  /\ hist[i].req = ReqUploadA
  /\ hist[i].env.status = "OK"
  /\ \A k \in (i + 1) .. (j - 1) :
       ~(hist[k].req = ReqDeleteA /\ hist[k].env.status = "OK")

\* C1 as stated: all sessions of one server process work on one directory: a file
\* uploaded by an earlier request is returned by GET and listed by LIST in every
\* later request until it is deleted.
C1_OneDirectory ==
  \A i, j \in DOMAIN hist :
    UploadedAndKept(i, j) =>
      /\ hist[j].req = ReqGetA =>
           (hist[j].env.status = "OK" /\ hist[j].env.data_file = b64encode(BytesHello))
      /\ hist[j].req = ReqList => NameATxt \in hist[j].env.data_list

\* C2 as stated: UPLOAD a.txt <base64 of hello>, GET a.txt, DELETE a.txt, GET a.txt
\* sent in this order to one running server return OK, OK with data_namafile a.txt
\* and data_file the base64 of hello, OK, and ERROR.
C2_Scenario ==
  (/\ Len(hist) = 4
   /\ hist[1].req = ReqUploadA
   /\ hist[2].req = ReqGetA
   /\ hist[3].req = ReqDeleteA
   /\ hist[4].req = ReqGetA)
  => /\ hist[1].env.status = "OK"
     /\ hist[2].env.status = "OK"
     /\ hist[2].env.data_namafile = NameATxt
     /\ hist[2].env.data_file = b64encode(BytesHello)
     /\ hist[3].env.status = "OK"
     /\ hist[4].env.status = "ERROR"

(***************************************************************************)
(* SpecConc: the accept loop of Server.run and the session handlers, in    *)
(* both servers.  A connection is                                          *)
(*   "accepted"  returned by accept(), held by the accept loop             *)
(*   "rejected"  turned away as busy                                       *)
(*   "failed"    executor.submit raised                                    *)
(*   "queued"    submitted to the thread pool, no thread has taken it yet  *)
(*   "running"   counted, its handler is at work on the open socket        *)
(*   "closed"    its handler has closed the socket                         *)
(*   "dec"       its handler has read the counter it is about to decrease  *)
(*   "done"      its handler has returned                                  *)
(***************************************************************************)
\* the ceiling Server is constructed with
max_workers == 2

\* connections that arrive in one run of the model
MaxConns == 4

\* the 'Server busy' envelope and its terminator
BusyEnv == ErrorEnv("Server busy, try again later", <<>>)

error_msg == JsonText(BusyEnv) \o Terminator

\* wire is the bytes the server has written to the connection
NewConn ==
  [st |-> "accepted", closed |-> FALSE, wire |-> <<>>, counted |-> FALSE, tmp |-> 0]

ConcInit ==
  /\ variant \in {"MT", "MP"}
  /\ active_connections = 0
  /\ total_connections = 0
  /\ conns = <<>>
  /\ acc = [pc |-> "accept", tmp |-> 0]
  /\ hist = <<>>
  /\ fs = [d \in Depths |-> EmptyDir]
  /\ dirs = 0
  /\ cwd = [w \in {1} |-> 0]
  /\ LastOff
  /\ SessOff
  /\ ClientOff
  /\ AuxOff

ConcFrame == UNCHANGED <<storeVars, seqVars, sessVars, clientVars, auxVars>>

\* the connection the accept loop holds
Cur == Len(conns)

\* a rejected connection whose close was skipped is referenced by conn alone
Dropped(c) == c > 0 /\ conns[c].st = "rejected" /\ ~conns[c].closed

\* conn, client_address = self.my_socket.accept(): conn is bound to the new
\* socket; a socket that only conn referenced is closed when the interpreter
\* collects it, which it may do at once or not at all
Accept ==
  /\ acc.pc = "accept"
  /\ Len(conns) < MaxConns
  /\ \E collected \in BOOLEAN :
       conns' = Append(IF collected /\ Dropped(Cur)
                         THEN [conns EXCEPT ![Cur] = [@ EXCEPT !.closed = TRUE]]
                         ELSE conns,
                       NewConn)
  /\ acc' = [acc EXCEPT !.pc = "check"]
  /\ UNCHANGED <<active_connections, total_connections>>
  /\ ConcFrame

\* the capacity test of Server.run
AtCapacity == active_connections >= max_workers

\* conn.settimeout(5); conn.send(error_msg.encode()); conn.close() inside
\* try/except: pass: the send goes through and the socket is closed, or the send
\* raises and the close is skipped
BusyReject ==
  /\ acc.pc = "check"
  /\ AtCapacity
  /\ \E sent \in BOOLEAN :
       conns' = [conns EXCEPT ![Cur] =
                   [@ EXCEPT !.st = "rejected",
                             !.closed = sent,
                             !.wire = IF sent THEN error_msg ELSE <<>>]]
  /\ acc' = [acc EXCEPT !.pc = "accept"]
  /\ UNCHANGED <<active_connections, total_connections>>
  /\ ConcFrame

\* multithreading: with self.connection_lock: the test fails, the lock is released
MTAdmit ==
  /\ variant = "MT"
  /\ acc.pc = "check"
  /\ ~AtCapacity
  /\ acc' = [acc EXCEPT !.pc = "submit"]
  /\ UNCHANGED <<active_connections, total_connections, conns>>
  /\ ConcFrame

\* self.executor.submit(self.handle_client_wrapper, conn, client_address)
MTSubmit ==
  /\ variant = "MT"
  /\ acc.pc = "submit"
  /\ conns' = [conns EXCEPT ![Cur] = [@ EXCEPT !.st = "queued"]]
  /\ acc' = [acc EXCEPT !.pc = "accept"]
  /\ UNCHANGED <<active_connections, total_connections>>
  /\ ConcFrame

\* submit raises: conn.close()
MTSubmitFail ==
  /\ variant = "MT"
  /\ acc.pc = "submit"
  /\ conns' = [conns EXCEPT ![Cur] = [@ EXCEPT !.st = "failed", !.closed = TRUE]]
  /\ acc' = [acc EXCEPT !.pc = "accept"]
  /\ UNCHANGED <<active_connections, total_connections>>
  /\ ConcFrame

\* threads of the pool that are running a handler
BusyThreads == {c \in DOMAIN conns : conns[c].st \in {"running", "closed"}}

\* a thread of the pool takes the connection: handle_client_wrapper,
\* with self.connection_lock: active_connections += 1; total_connections += 1
MTStart(c) ==
  /\ variant = "MT"
  /\ conns[c].st = "queued"
  /\ Cardinality(BusyThreads) < max_workers
  /\ active_connections' = active_connections + 1
  /\ total_connections' = total_connections + 1
  /\ conns' = [conns EXCEPT ![c] = [@ EXCEPT !.st = "running", !.counted = TRUE]]
  /\ UNCHANGED acc
  /\ ConcFrame

\* process_client / handle_client up to connection.close() in its finally
Process(c) ==
  /\ conns[c].st = "running"
  /\ conns' = [conns EXCEPT ![c] = [@ EXCEPT !.st = "closed", !.closed = TRUE]]
  /\ UNCHANGED <<active_connections, total_connections, acc>>
  /\ ConcFrame

\* handle_client_wrapper, finally: with self.connection_lock: active_connections -= 1
MTFinish(c) ==
  /\ variant = "MT"
  /\ conns[c].st = "closed"
  /\ active_connections' = active_connections - 1
  /\ conns' = [conns EXCEPT ![c] = [@ EXCEPT !.st = "done"]]
  /\ UNCHANGED <<total_connections, acc>>
  /\ ConcFrame

\* multiprocessing: the test fails; self.active_connections += 1 begins by reading
\* the counter (no lock: the handlers are threads of the same process)
MPAdmit ==
  /\ variant = "MP"
  /\ acc.pc = "check"
  /\ ~AtCapacity
  /\ acc' = [acc EXCEPT !.pc = "increment"]
  /\ UNCHANGED <<active_connections, total_connections, conns>>
  /\ ConcFrame

MPIncrementRead ==
  /\ variant = "MP"
  /\ acc.pc = "increment"
  /\ acc' = [pc |-> "store", tmp |-> active_connections]
  /\ UNCHANGED <<active_connections, total_connections, conns>>
  /\ ConcFrame

\* ... and stores the sum; total_connections += 1; client_thread.start()
MPIncrementStore ==
  /\ variant = "MP"
  /\ acc.pc = "store"
  /\ active_connections' = acc.tmp + 1
  /\ total_connections' = total_connections + 1
  /\ conns' = [conns EXCEPT ![Cur] = [@ EXCEPT !.st = "running", !.counted = TRUE]]
  /\ acc' = [pc |-> "accept", tmp |-> 0]
  /\ ConcFrame

\* handle_client, finally: self.active_connections -= 1 reads the counter ...
MPDecrementRead(c) ==
  /\ variant = "MP"
  /\ conns[c].st = "closed"
  /\ conns' = [conns EXCEPT ![c] = [@ EXCEPT !.st = "dec", !.tmp = active_connections]]
  /\ UNCHANGED <<active_connections, total_connections, acc>>
  /\ ConcFrame

\* ... and stores the difference
MPDecrementStore(c) ==
  /\ variant = "MP"
  /\ conns[c].st = "dec"
  /\ active_connections' = conns[c].tmp - 1
  /\ conns' = [conns EXCEPT ![c] = [@ EXCEPT !.st = "done", !.tmp = 0]]
  /\ UNCHANGED <<total_connections, acc>>
  /\ ConcFrame

ConcNext ==
  \/ Accept
  \/ BusyReject
  \/ MTAdmit
  \/ MTSubmit
  \/ MTSubmitFail
  \/ MPAdmit
  \/ MPIncrementRead
  \/ MPIncrementStore
  \/ \E c \in DOMAIN conns : MTStart(c)
  \/ \E c \in DOMAIN conns : Process(c)
  \/ \E c \in DOMAIN conns : MTFinish(c)
  \/ \E c \in DOMAIN conns : MPDecrementRead(c)
  \/ \E c \in DOMAIN conns : MPDecrementStore(c)

SpecConc == ConcInit /\ [][ConcNext]_vars

\* the steps of the accept loop, which is the main thread of the server, once
\* a client has connected; whether another client connects is up to the clients
AcceptLoopStep ==
  \/ BusyReject
  \/ MTAdmit
  \/ MTSubmit
  \/ MTSubmitFail
  \/ MPAdmit
  \/ MPIncrementRead
  \/ MPIncrementStore

\* the steps of the handler of connection c, which runs in a thread of its own
HandlerStep(c) ==
  /\ c \in DOMAIN conns
  /\ \/ MTStart(c)
     \/ Process(c)
     \/ MTFinish(c)
     \/ MPDecrementRead(c)
     \/ MPDecrementStore(c)

\* the operating system lets every thread that can run take its next step
SpecConcFair ==
  /\ SpecConc
  /\ WF_vars(AcceptLoopStep)
  /\ \A c \in 1 .. MaxConns : WF_vars(HandlerStep(c))


(***************************************************************************)
(* Claims about admission and the counters, checked under SpecConc.        *)
(***************************************************************************)
\* admitted sessions that have not finished: queued in the executor or running
Unfinished == {c \in DOMAIN conns : conns[c].st \in {"queued", "running"}}

\* C6 as stated: in both servers the number of admitted sessions that have not
\* yet finished never exceeds max_workers, whatever the timing of arrivals.
C6_AdmittedWithinCeiling == Cardinality(Unfinished) <= max_workers

\* sessions counted on start whose handler has not yet decreased the counter
CountedOpen == {c \in DOMAIN conns : conns[c].st \in {"running", "closed"}}

\* no update of the counter is half done
NoUpdateInFlight ==
  /\ acc.pc # "store"
  /\ \A c \in DOMAIN conns : conns[c].st # "dec"

\* C7 as stated: in both servers, after any interleaving of the accept loop and
\* the handlers, active_connections equals the number of sessions counted on
\* start and not yet finished: no increment or decrement is lost.
C7_CounterExact ==
  NoUpdateInFlight => active_connections = Cardinality(CountedOpen)

\* C8 as stated: a connection accepted while active_connections >= max_workers
\* gets the 'Server busy' envelope and the terminator, is closed, is never handed
\* to a worker or handler thread, and is never counted.
C8_BusyRejected ==
  \A c \in DOMAIN conns :
    conns[c].st = "rejected" =>
      /\ conns[c].wire = error_msg
      /\ conns[c].closed
      /\ ~conns[c].counted

(***************************************************************************)
(* SpecSession: one admitted connection, from the first recv to the close  *)
(* of the socket, in both servers.  Sizes are counted in characters and    *)
(* scaled down, keeping the order of the source's sizes (1024 < chunk_size *)
(* < max_data_size).  The requests are ASCII, for which bytes.decode and   *)
(* str.encode keep every character.                                        *)
(***************************************************************************)
\* the size below which the small-command rule applies (1024 in the source)
small_command_limit == 12

\* connection.recv(chunk_size) (2097152 in the source)
chunk_size == 16

\* the size at which the receive loop stops (10000 * 1024 * 1024 in the source)
max_data_size == 32

\* the most one connection.send is given (131072 in the source)
send_chunk_size == 4

Min(a, b) == IF a < b THEN a ELSE b

NameBTxt == <<"b", ".", "t", "x", "t">>

RECURSIVE Repeat(_, _)
Repeat(c, n) == IF n = 0 THEN <<>> ELSE <<c>> \o Repeat(c, n - 1)

\* what the peer sends
StreamEmpty == <<>>

StreamList == ReqList

StreamGetLine == ReqGetA \o <<"\n">>

StreamDelete == ReqDeleteA

\* an upload that is longer than max_data_size
StreamBig ==
  <<"U", "P", "L", "O", "A", "D", " ">> \o NameBTxt \o <<" ">> \o Repeat("A", 28)

\* a line whose newline comes after small_command_limit bytes
StreamLongLine == ReqDeleteA \o <<" ", " ", "\n">>

Streams ==
  {StreamEmpty, StreamList, StreamGetLine, StreamDelete, StreamBig, StreamLongLine}

\* what the peer does besides sending: it half-closes after its last byte (as
\* file_client.py does), it goes silent, it resets the connection, the socket
\* fails in another way, or the peer goes on sending a byte at a time for ever
PeerModes == {"halfclose", "silent", "reset", "error", "trickle"}

SmallCommand_NoLimit(full_data) ==
  Contains(full_data, "\n") \/ Upper(Strip(full_data)) = ReqList

\* full_data.decode('utf-8', errors='ignore') of the small-command rule
SmallCommand(full_data) ==
  /\ Len(full_data) < small_command_limit
  /\ (Contains(full_data, "\n") \/ Upper(Strip(full_data)) = ReqList)

\* the envelopes Server.handle_client builds by string formatting
TimeoutEnv == ErrorEnv("Processing timeout", <<>>)

FailedEnv == ErrorEnv("Processing failed", <<>>)

Response_NoTerminator(env) == JsonText(env)

\* response = hasil + "\r\n\r\n"
Response(env) == JsonText(env) \o Terminator

\* a store left by earlier runs: files/a.txt exists, and the process is in the
\* directory it started in, or in one where files is a regular file
SessStores ==
  {[fs |-> [d \in Depths |-> IF d = 1 THEN [n \in {NameATxt} |-> BytesHello] ELSE EmptyDir],
    dirs |-> 1, cwd |-> 0],
   [fs |-> [d \in Depths |-> IF d = 1 THEN [n \in {NameATxt, NameFiles} |-> BytesHello]
                                      ELSE EmptyDir],
    dirs |-> 1, cwd |-> 1]}

SessInit ==
  /\ variant \in {"MT", "MP"}
  /\ hist = <<>>
  /\ \E st \in SessStores :
       /\ fs = st.fs
       /\ dirs = st.dirs
       /\ cwd = [w \in {1} |-> st.cwd]
  /\ LastOff
  /\ ConcOff
  /\ ClientOff
  /\ AuxOff
  /\ peer \in [stream : Streams, pos : {0}, mode : PeerModes]
  /\ sess = [pc |-> "start", full_data |-> <<>>, dispatched |-> <<>>, env |-> NoEnv,
             response_bytes |-> <<>>, bytes_sent |-> 0, wire |-> <<>>,
             closed |-> FALSE, send_failed |-> FALSE]

SessFrame == UNCHANGED <<variant, hist, last, concVars, clientVars, auxVars>>

StoreFrame == UNCHANGED <<fs, dirs, cwd>>

\* the session is counted before its first recv: handle_client_wrapper does
\* active_connections += 1 and total_connections += 1 when it starts, and the
\* accept loop of the multiprocessing server does so before it starts the thread
SessCount ==
  /\ sess.pc = "start"
  /\ sess' = [sess EXCEPT !.pc = "recv"]
  /\ active_connections' = active_connections + 1
  /\ total_connections' = total_connections + 1
  /\ UNCHANGED <<peer, conns, acc, variant, hist, last, clientVars, auxVars>>
  /\ StoreFrame

\* while len(full_data) < max_data_size
InLoop == sess.pc = "recv" /\ Len(sess.full_data) < max_data_size

AfterLoop_Process(full_data) == "process"

\* after the loop: if len(full_data) == 0: return
AfterLoop(full_data) == IF Len(full_data) = 0 THEN "finally" ELSE "process"

\* chunk = connection.recv(chunk_size) returns n bytes; full_data += chunk; the
\* small-command rule
RecvChunk ==
  /\ InLoop
  /\ \E n \in 1 .. Min(chunk_size, Len(peer.stream) - peer.pos) :
       LET data == sess.full_data \o SubSeq(peer.stream, peer.pos + 1, peer.pos + n)
       IN /\ sess' = [sess EXCEPT !.full_data = data,
                                  !.pc = IF SmallCommand(data) THEN "process" ELSE "recv"]
          /\ peer' = [peer EXCEPT !.pos = @ + n]
  /\ StoreFrame
  /\ SessFrame

\* chunk = connection.recv(chunk_size) returns one more byte of a peer that never
\* stops sending
RecvTrickle ==
  /\ InLoop
  /\ peer.mode = "trickle"
  /\ peer.pos = Len(peer.stream)
  /\ LET data == sess.full_data \o <<"A">>
     IN sess' = [sess EXCEPT !.full_data = data,
                             !.pc = IF SmallCommand(data) THEN "process" ELSE "recv"]
  /\ UNCHANGED peer
  /\ StoreFrame
  /\ SessFrame

\* the loop condition fails: the buffer has reached max_data_size
RecvFull ==
  /\ sess.pc = "recv"
  /\ Len(sess.full_data) >= max_data_size
  /\ sess' = [sess EXCEPT !.pc = AfterLoop(sess.full_data)]
  /\ UNCHANGED peer
  /\ StoreFrame
  /\ SessFrame

\* if not chunk: break
RecvEOF ==
  /\ InLoop
  /\ peer.mode = "halfclose"
  /\ peer.pos = Len(peer.stream)
  /\ sess' = [sess EXCEPT !.pc = AfterLoop(sess.full_data)]
  /\ UNCHANGED peer
  /\ StoreFrame
  /\ SessFrame

RecvTimeout_Continue ==
  /\ InLoop
  /\ peer.mode = "silent"
  /\ UNCHANGED <<sess, peer>>
  /\ StoreFrame
  /\ SessFrame

\* except socket.timeout: the 120 s of settimeout have passed since last_activity,
\* so with data the loop is left and without data the handler returns
RecvTimeout ==
  /\ InLoop
  /\ peer.mode = "silent"
  /\ sess' = [sess EXCEPT !.pc = AfterLoop(sess.full_data)]
  /\ UNCHANGED peer
  /\ StoreFrame
  /\ SessFrame

\* except ConnectionResetError: break with data, return without
RecvReset ==
  /\ InLoop
  /\ peer.mode = "reset"
  /\ sess' = [sess EXCEPT !.pc = AfterLoop(sess.full_data)]
  /\ UNCHANGED peer
  /\ StoreFrame
  /\ SessFrame

\* except Exception: break with data, return without
RecvError ==
  /\ InLoop
  /\ peer.mode = "error"
  /\ sess' = [sess EXCEPT !.pc = AfterLoop(sess.full_data)]
  /\ UNCHANGED peer
  /\ StoreFrame
  /\ SessFrame

\* process_client: fp = FileProtocol(); hasil = fp.proses_string(command_str);
\* response = hasil + "\r\n\r\n"
ProcessMT ==
  /\ variant = "MT"
  /\ sess.pc = "process"
  /\ LET r == ProcessCommand(fs, dirs, cwd[1], sess.full_data)
     IN /\ r.env # ProcessingErrorEnv
        /\ fs' = r.fs
        /\ dirs' = r.dirs
        /\ cwd' = [cwd EXCEPT ![1] = r.cwd]
        /\ sess' = [sess EXCEPT !.pc = "send", !.env = r.env,
                                !.dispatched = Append(@, Strip(sess.full_data)),
                                !.response_bytes = Response(r.env)]
  /\ UNCHANGED peer
  /\ SessFrame

\* process_client: FileProtocol() raises; except Exception: the error response is
\* given to one connection.send, which sends it or raises
ProcessErrorMT ==
  /\ variant = "MT"
  /\ sess.pc = "process"
  /\ ProcessCommand(fs, dirs, cwd[1], sess.full_data).env = ProcessingErrorEnv
  /\ \E sent \in BOOLEAN :
       sess' = [sess EXCEPT !.pc = "finally", !.env = ProcessingErrorEnv,
                            !.response_bytes = Response(ProcessingErrorEnv),
                            !.bytes_sent = IF sent THEN Len(Response(ProcessingErrorEnv)) ELSE 0,
                            !.send_failed = ~sent,
                            !.wire = IF sent THEN Response(ProcessingErrorEnv) ELSE <<>>]
  /\ UNCHANGED peer
  /\ StoreFrame
  /\ SessFrame

\* handle_client: future = self.executor.submit(...); result = future.result(1200);
\* process_client_task ran in a worker process and its result is sent on
ProcessMP ==
  /\ variant = "MP"
  /\ sess.pc = "process"
  /\ LET r == ProcessCommand(fs, dirs, cwd[1], sess.full_data)
     IN /\ fs' = r.fs
        /\ dirs' = r.dirs
        /\ cwd' = [cwd EXCEPT ![1] = r.cwd]
        /\ sess' = [sess EXCEPT !.pc = "send", !.env = r.env,
                                !.dispatched = IF r.env = ProcessingErrorEnv THEN @
                                               ELSE Append(@, Strip(sess.full_data)),
                                !.response_bytes = Response(r.env)]
  /\ UNCHANGED peer
  /\ SessFrame

\* fp.proses_string does not return (the Store blocks on the file system): the
\* thread of process_client, or the worker process of process_client_task, stays
\* in the call
ProcessHang ==
  /\ sess.pc = "process"
  /\ sess' = [sess EXCEPT !.pc = "hung"]
  /\ UNCHANGED peer
  /\ StoreFrame
  /\ SessFrame

\* handle_client: future.result(timeout=1200) raises TimeoutError while the worker
\* is still in the call: the 'Processing timeout' envelope is sent
ProcessTimeoutMP ==
  /\ variant = "MP"
  /\ sess.pc = "hung"
  /\ sess' = [sess EXCEPT !.pc = "send", !.env = TimeoutEnv,
                          !.response_bytes = Response(TimeoutEnv)]
  /\ UNCHANGED peer
  /\ StoreFrame
  /\ SessFrame

\* handle_client: future.result raises another exception (the worker process
\* died): the 'Processing failed' envelope is sent
ProcessFailMP ==
  /\ variant = "MP"
  /\ sess.pc = "process"
  /\ sess' = [sess EXCEPT !.pc = "send", !.env = FailedEnv,
                          !.response_bytes = Response(FailedEnv)]
  /\ UNCHANGED peer
  /\ StoreFrame
  /\ SessFrame

\* handle_client: self.executor.submit raises; except Exception: nothing is sent
SubmitFailMP ==
  /\ variant = "MP"
  /\ sess.pc = "process"
  /\ sess' = [sess EXCEPT !.pc = "finally"]
  /\ UNCHANGED peer
  /\ StoreFrame
  /\ SessFrame

SendChunkOf_FromStart(response_bytes, bytes_sent) ==
  SubSeq(response_bytes, 1, Min(send_chunk_size, Len(response_bytes)))

\* chunk = response_bytes[bytes_sent:chunk_end]
SendChunkOf(response_bytes, bytes_sent) ==
  SubSeq(response_bytes, bytes_sent + 1,
         Min(bytes_sent + send_chunk_size, Len(response_bytes)))

\* sent = connection.send(chunk); bytes_sent += sent
SendSome ==
  /\ sess.pc = "send"
  /\ sess.bytes_sent < Len(sess.response_bytes)
  /\ LET chunk == SendChunkOf(sess.response_bytes, sess.bytes_sent)
     IN \E sent \in 1 .. Len(chunk) :
          sess' = [sess EXCEPT !.wire = @ \o SubSeq(chunk, 1, sent),
                               !.bytes_sent = @ + sent]
  /\ UNCHANGED peer
  /\ StoreFrame
  /\ SessFrame

\* send returns 0 or raises: break (process_client), return False
\* (send_response_to_client)
SendBroken ==
  /\ sess.pc = "send"
  /\ sess.bytes_sent < Len(sess.response_bytes)
  /\ sess' = [sess EXCEPT !.pc = "finally", !.send_failed = TRUE]
  /\ UNCHANGED peer
  /\ StoreFrame
  /\ SessFrame

\* while bytes_sent < len(response_bytes) ends
SendDone ==
  /\ sess.pc = "send"
  /\ sess.bytes_sent >= Len(sess.response_bytes)
  /\ sess' = [sess EXCEPT !.pc = "finally"]
  /\ UNCHANGED peer
  /\ StoreFrame
  /\ SessFrame

\* finally: connection.close()
CloseSocket ==
  /\ sess.pc = "finally"
  /\ sess' = [sess EXCEPT !.pc = "closed", !.closed = TRUE]
  /\ UNCHANGED peer
  /\ StoreFrame
  /\ SessFrame

SessUncount_Early ==
  /\ sess.pc = "finally"
  /\ sess' = [sess EXCEPT !.pc = "done"]
  /\ active_connections' = active_connections - 1
  /\ UNCHANGED <<peer, total_connections, conns, acc, variant, hist, last, clientVars, auxVars>>
  /\ StoreFrame

\* process_client or the body of handle_client is over and the socket is closed:
\* the finally of handle_client_wrapper, or the last statement of handle_client's
\* finally, does active_connections -= 1
SessUncount ==
  /\ sess.pc = "closed"
  /\ sess' = [sess EXCEPT !.pc = "done"]
  /\ active_connections' = active_connections - 1
  /\ UNCHANGED <<peer, total_connections, conns, acc, variant, hist, last, clientVars, auxVars>>
  /\ StoreFrame

SessNext ==
  \/ SessCount
  \/ SessUncount
  \/ RecvChunk
  \/ RecvTrickle
  \/ RecvFull
  \/ RecvEOF
  \/ RecvTimeout
  \/ RecvReset
  \/ RecvError
  \/ ProcessMT
  \/ ProcessErrorMT
  \/ ProcessMP
  \/ ProcessHang
  \/ ProcessTimeoutMP
  \/ ProcessFailMP
  \/ SubmitFailMP
  \/ SendSome
  \/ SendBroken
  \/ SendDone
  \/ CloseSocket

SpecSession == SessInit /\ [][SessNext]_vars

\* what the handler does once the request has been handed to processing
AfterDispatch ==
  \/ ProcessTimeoutMP
  \/ SendSome
  \/ SendBroken
  \/ SendDone
  \/ CloseSocket
  \/ SessUncount

\* the handler is a thread that runs whenever it has a step to take, and the
\* timeout of future.result fires when its time has passed
\* one pass of the receive loop: connection.recv returns bytes, returns b"", or
\* raises after at most the 120 s of settimeout
ReceiveStep ==
  \/ RecvChunk
  \/ RecvTrickle
  \/ RecvFull
  \/ RecvEOF
  \/ RecvTimeout
  \/ RecvReset
  \/ RecvError

SpecSessionFair == SpecSession /\ WF_vars(AfterDispatch) /\ WF_vars(ReceiveStep)

\* C12 as stated: every accepted connection, whether admitted, rejected as busy
\* or failed on submit, has its socket closed eventually.
C12_EventuallyClosed ==
  \A c \in 1 .. MaxConns :
    (Len(conns) >= c) ~> (Len(conns) >= c /\ conns[c].closed)

\* C13 as stated: whatever failed in earlier sessions, the accept loop is still
\* running, and a connection that arrives while fewer than max_workers counted
\* sessions are open is admitted.
C13_AcceptsAgain ==
  /\ acc.pc \in {"accept", "check", "submit", "increment", "store"}
  /\ (acc.pc = "check" /\ NoUpdateInFlight /\ Cardinality(CountedOpen) < max_workers)
       => ~AtCapacity

(***************************************************************************)
(* Claims about one session, checked under SpecSession.                    *)
(***************************************************************************)
\* C9: a request whose accumulated bytes reach max_data_size is rejected: the
\* buffer never holds more than max_data_size bytes, and nothing of such a
\* request is handed to the protocol, so no Store operation runs for it.
C9_OversizedRejected ==
  /\ Len(sess.full_data) <= max_data_size
  /\ (Len(sess.full_data) >= max_data_size => sess.dispatched = <<>>)

IsPrefix(s, t) == Len(s) <= Len(t) /\ s = SubSeq(t, 1, Len(s))

\* the bytes are one complete envelope followed by the terminator
OneEnvelope(wire) == Len(wire) >= 2 /\ wire = Response(wire[2].env)

\* C10 as stated: on every path, the closed connection has been written exactly
\* one complete envelope followed by the terminator.
C10_ExactlyOneEnvelope == sess.closed => OneEnvelope(sess.wire)

\* C10, amended: the server never writes more than one envelope.  What is on the
\* wire is always the beginning of the one response; at close it is the whole
\* response exactly when a response was built and no send failed, and it is
\* nothing when no data was received.
C10_AtMostOneEnvelope ==
  /\ sess.response_bytes \in {<<>>, Response(sess.env)}
  /\ IsPrefix(sess.wire, sess.response_bytes)
  /\ Len(sess.wire) = sess.bytes_sent
  /\ sess.closed =>
       /\ OneEnvelope(sess.wire) <=> (sess.response_bytes # <<>> /\ ~sess.send_failed)
       /\ sess.full_data = <<>> => sess.wire = <<>>

\* a closed session whose response took more than one send and arrived whole
C10_Witness ==
  /\ sess.closed
  /\ sess.dispatched # <<>>
  /\ Len(sess.response_bytes) > send_chunk_size
  /\ sess.wire = Response(sess.env)

\* C21 as stated: in both servers, when the processing of an admitted request
\* never finishes, the processing timeout fires and the session is aborted: the
\* socket is closed.
C21_HungIsAborted == (sess.pc = "hung") ~> sess.closed

\* C22: the receive ends either with a non-empty byte sequence, which is handed
\* to processing as one request, or with the no-data outcome, after which nothing
\* is dispatched or sent; it is the no-data outcome exactly when no byte was
\* accumulated.
C22_ReceiveOutcome ==
  [][/\ (sess.pc = "recv" /\ sess'.pc # "recv") =>
          IF sess'.full_data # <<>>
            THEN sess'.pc = "process"
            ELSE sess'.pc = "finally" /\ sess'.dispatched = <<>> /\ sess'.wire = <<>>
     /\ Len(sess'.dispatched) <= 1
     /\ sess'.dispatched # <<>> =>
          (sess'.full_data # <<>> /\ sess'.dispatched[1] = Strip(sess'.full_data))
     /\ (sess'.pc \in {"finally", "closed"} /\ sess'.full_data = <<>>) =>
          (sess'.dispatched = <<>> /\ sess'.wire = <<>>)]_vars

\* the peer reset the connection before the server had read a byte of its request
C22_Witness ==
  /\ sess.pc = "closed"
  /\ sess.full_data = <<>>
  /\ peer.stream # <<>>
  /\ peer.mode = "reset"

\* the receive was ended by a reset or another transport error while part of the
\* request was still to come
ResetWhileReceiving ==
  /\ peer.mode \in {"reset", "error"}
  /\ sess.pc # "recv"
  /\ peer.pos < Len(peer.stream)
  /\ Len(sess.full_data) < max_data_size
  /\ ~SmallCommand(sess.full_data)

\* C23 as stated: when the connection is reset or fails while the request is being
\* received, nothing is executed on the bytes received so far.
C23_ResetAborts == ResetWhileReceiving => sess.dispatched = <<>>

\* C28: after a chunk, a buffer shorter than the limit that holds a newline, or
\* whose stripped upper-cased text is LIST, completes the request in that very
\* step; a buffer that has reached the limit is never completed by the rule.
C28_SmallCommandRule ==
  [][(sess.pc = "recv" /\ sess'.full_data # sess.full_data) =>
       LET data == sess'.full_data
       IN /\ (/\ Len(data) < small_command_limit
              /\ \/ \E i \in 1 .. Len(data) : data[i] = "\n"
                 \/ Upper(Strip(data)) = <<"L", "I", "S", "T">>)
               => (sess'.pc = "process" /\ sess'.dispatched = <<>>)
          /\ Len(data) >= small_command_limit => sess'.pc = "recv"]_vars

\* LIST without a newline is complete although the peer neither closed nor reset
\* and no timeout has passed
C28_Witness ==
  /\ sess.pc = "process"
  /\ sess.full_data = <<"L", "I", "S", "T">>
  /\ peer.mode = "silent"
  /\ peer.pos = Len(peer.stream)

\* a read of the receive loop timed out
ReadTimedOut ==
  /\ sess.pc = "recv"
  /\ Len(sess.full_data) < max_data_size
  /\ peer.mode = "silent"
  /\ sess'.full_data = sess.full_data
  /\ sess'.pc # "recv"

\* C29: a read that times out with bytes buffered completes the request, which goes
\* to the dispatch; with nothing buffered the session ends with nothing dispatched
\* and nothing sent; and whatever the peer does, the receive loop is left.
C29_TimeoutAndTermination ==
  /\ [][ReadTimedOut =>
          IF sess.full_data # <<>>
            THEN sess'.pc = "process"
            ELSE sess'.pc = "finally" /\ sess'.dispatched = <<>> /\ sess'.wire = <<>>]_vars
  /\ [][(sess.full_data = <<>> /\ sess.pc \in {"finally", "closed", "done"}) =>
          (sess'.dispatched = <<>> /\ sess'.wire = <<>>)]_vars
  /\ \A mode \in PeerModes :
       (sess.pc = "recv" /\ peer.mode = mode) ~> (sess.pc # "recv")

\* a silent peer sent part of its request; the read timed out and the part was
\* dispatched
C29_Witness ==
  /\ peer.mode = "silent"
  /\ peer.pos < Len(peer.stream)
  /\ sess.full_data # <<>>
  /\ ~SmallCommand(sess.full_data)
  /\ sess.dispatched # <<>>

\* C30: each pass of the send loop writes the next at most send_chunk_size bytes
\* of the envelope text followed by CR LF CR LF, in order, and advances by what the
\* send reported; a send that reports zero or raises ends the loop with nothing
\* more written, then or later; and when the loop ends without a failure, what was
\* written is the envelope text and the terminator, once.
C30_SendLoop ==
  [][/\ sess.pc = "send" =>
          LET whole == JsonText(sess.env) \o
                         <<Piece("\r", NoEnv), Piece("\n", NoEnv),
                           Piece("\r", NoEnv), Piece("\n", NoEnv)>>
              sent == sess'.bytes_sent - sess.bytes_sent
          IN /\ sent \in 0 .. send_chunk_size
             /\ Len(sess.wire) = sess.bytes_sent
             /\ sess.bytes_sent + sent <= Len(whole)
             /\ sess'.wire = SubSeq(whole, 1, sess.bytes_sent + sent)
             /\ sent > 0 => (sess'.pc = "send" /\ ~sess'.send_failed)
             /\ sess'.send_failed => (sent = 0 /\ sess'.pc = "finally")
             /\ (sess'.pc = "finally" /\ ~sess'.send_failed) => sess'.wire = whole
     /\ sess.pc \in {"finally", "closed", "done"} => sess'.wire = sess.wire]_vars

\* a response longer than one chunk went out whole, and the loop has ended
C30_Witness ==
  /\ sess.pc = "finally"
  /\ ~sess.send_failed
  /\ sess.bytes_sent > send_chunk_size
  /\ sess.bytes_sent = Len(sess.response_bytes)
  /\ sess.wire = sess.response_bytes
  /\ sess.env.status = "OK"

\* how far the handler of the session has come
StepRank(pc) ==
  CASE pc = "start" -> 0
    [] pc = "recv" -> 1
    [] pc \in {"process", "hung"} -> 2
    [] pc = "send" -> 3
    [] pc = "finally" -> 4
    [] pc = "closed" -> 5
    [] pc = "done" -> 6

\* C27: on every path of a session the steps come in the order receive, dispatch,
\* send, close, decrement: bytes are read only while receiving, the request is
\* dispatched only after that, response bytes are written only after the dispatch
\* and before the close, and active_connections goes up by one once, before the
\* receive, and down by one once, after the socket is closed.
C27_StepOrder ==
  [][/\ StepRank(sess'.pc) >= StepRank(sess.pc)
     /\ sess'.full_data # sess.full_data => sess.pc = "recv"
     /\ sess'.dispatched # sess.dispatched => sess.pc = "process"
     /\ sess'.wire # sess.wire => (sess.pc \in {"process", "send"} /\ ~sess.closed)
     /\ sess'.closed # sess.closed => (sess.pc = "finally" /\ sess'.closed)
     /\ active_connections' # active_connections =>
          \/ sess.pc = "start" /\ active_connections' = active_connections + 1
          \/ /\ sess.pc = "closed" /\ sess.closed /\ sess'.pc = "done"
             /\ active_connections' = active_connections - 1
     /\ active_connections' = IF sess'.pc \in {"start", "done"} THEN 0 ELSE 1]_vars

\* a session whose send failed part-way was closed and then uncounted
C27_Witness ==
  /\ sess.pc = "done"
  /\ sess.closed
  /\ sess.send_failed
  /\ sess.wire # <<>>
  /\ active_connections = 0
  /\ total_connections = 1

\* C11 as stated: the first response byte is written only after every byte the
\* client sends for the request has been read.
C11_ReadBeforeWrite == sess.wire # <<>> => peer.pos = Len(peer.stream)

(***************************************************************************)
(* SpecClient: one call of send_command of file_client.py.  Every attempt  *)
(* meets a server that refuses, times out, fails, or accepts and then      *)
(* sends some bytes and closes, goes silent or resets.                     *)
(***************************************************************************)
\* the largest max_retries a call is made with
MaxRetries == 6

\* wait_time = min(2 ** attempt, 10)
BackoffCap == 10

\* time.sleep(5) after ConnectionRefusedError
RefusedPause == 5

RECURSIVE Pow2(_)
Pow2(k) == IF k = 0 THEN 1 ELSE 2 * Pow2(k - 1)

WaitTime_NoCap(kind, attempt) ==
  IF kind = "refused" THEN RefusedPause ELSE Pow2(attempt)

\* the pause after failed attempt number attempt
WaitTime(kind, attempt) ==
  IF kind = "refused" THEN RefusedPause ELSE Min(Pow2(attempt), BackoffCap)

\* the text of a JSON number
JsonNumber == <<Piece("7", NoEnv)>>

\* what a server can send back: an envelope, an object without members, a
\* number, the beginning of an envelope, the terminator alone, nothing
ServerEnvelope == ListEnv({NameATxt})

ServerResponses ==
  {Response(ServerEnvelope), Response(NoEnv), JsonNumber \o Terminator,
   SubSeq(JsonText(ServerEnvelope), 1, 2), Terminator, <<>>}

\* what the server does after its bytes: it closes, goes silent, or resets
ServerModes == {"close", "silent", "reset"}

\* b"\r\n\r\n" in response_data
RECURSIVE TerminatorAt(_, _)
TerminatorAt(data, i) ==
  IF i + Len(Terminator) - 1 > Len(data) THEN 0
  ELSE IF SubSeq(data, i, i + Len(Terminator) - 1) = Terminator THEN i
  ELSE TerminatorAt(data, i + 1)

HasTerminator(data) == TerminatorAt(data, 1) # 0

\* .replace("\r\n\r\n", "")
RECURSIVE RemoveTerminators(_)
RemoveTerminators(data) ==
  LET i == TerminatorAt(data, 1)
  IN IF i = 0 THEN data
     ELSE SubSeq(data, 1, i - 1) \o RemoveTerminators(SubSeq(data, i + Len(Terminator), Len(data)))

\* .strip() of the decoded text
RECURSIVE StripText(_)
StripText(data) ==
  IF data = <<>> THEN data
  ELSE IF data[1].tok \in Whitespace THEN StripText(Tail(data))
  ELSE IF data[Len(data)].tok \in Whitespace THEN StripText(SubSeq(data, 1, Len(data) - 1))
  ELSE data

\* clean_data = response_data.decode(...).replace("\r\n\r\n", "").strip()
CleanData(response_data) == StripText(RemoveTerminators(response_data))

\* json.loads(clean_data): an object, another JSON value, or JSONDecodeError
JsonLoads(clean_data) ==
  IF /\ Len(clean_data) = 3
     /\ clean_data[1].tok = "{"
     /\ clean_data[2].tok = "members"
     /\ clean_data[3].tok = "}"
    THEN [ok |-> TRUE, dict |-> TRUE, value |-> clean_data[2].env]
  ELSE IF clean_data = JsonNumber
    THEN [ok |-> TRUE, dict |-> FALSE, value |-> NoEnv]
  ELSE [ok |-> FALSE, dict |-> FALSE, value |-> NoEnv]

InvalidJsonEnv_Ok == OkEnv("Invalid JSON response", <<"JSONDecodeError">>)

\* {"status": "ERROR", "data": f"Invalid JSON response: {str(e)}"}
InvalidJsonEnv == ErrorEnv("Invalid JSON response", <<"JSONDecodeError">>)

AllFailedEnv_Ok(max_retries) == OkEnv("All connection attempts failed", <<max_retries>>)

\* {"status": "ERROR", "data": f"All {max_retries} connection attempts failed"}
AllFailedEnv(max_retries) == ErrorEnv("All connection attempts failed", <<max_retries>>)

NoServer == [mode |-> "none", stream |-> <<>>, pos |-> 0]

ClientInit ==
  /\ cl \in [pc : {"loop"}, max_retries : 0 .. MaxRetries, attempt : {0}, waits : {<<>>},
             failures : {<<>>}, sockets : {0}, open : {{}}, response_data : {<<>>}, result : {NoEnv},
             returned_at : {0}]
  /\ srv = NoServer
  /\ variant = "MT"
  /\ hist = <<>>
  /\ fs = [d \in Depths |-> EmptyDir]
  /\ dirs = 0
  /\ cwd = [w \in {1} |-> 0]
  /\ LastOff
  /\ ConcOff
  /\ SessOff
  /\ AuxOff

ClientFrame == UNCHANGED <<storeVars, seqVars, concVars, sessVars, auxVars>>

\* for attempt in range(max_retries): sock = create_connection()
NewAttempt ==
  /\ cl.pc = "loop"
  /\ cl.attempt < cl.max_retries
  /\ cl' = [cl EXCEPT !.pc = "connect", !.sockets = @ + 1, !.open = @ \cup {cl.sockets + 1},
                      !.response_data = <<>>]
  /\ srv' = NoServer
  /\ ClientFrame

\* the loop is over: return the 'All attempts failed' envelope
AllFailed ==
  /\ cl.pc = "loop"
  /\ cl.attempt >= cl.max_retries
  /\ cl' = [cl EXCEPT !.pc = "returned", !.result = AllFailedEnv(cl.max_retries)]
  /\ UNCHANGED srv
  /\ ClientFrame

Failed_NoPause(kind) ==
  /\ cl' = [cl EXCEPT !.pc = "loop",
                      !.failures = Append(@, kind),
                      !.attempt = @ + 1,
                      !.open = @ \ {cl.sockets}]
  /\ srv' = NoServer
  /\ ClientFrame

\* except socket.timeout / ConnectionRefusedError / Exception: sleep unless this
\* was the last attempt, continue; finally: sock.close()
Failed(kind) ==
  /\ cl' = [cl EXCEPT !.pc = "loop",
                      !.failures = Append(@, kind),
                      !.waits = IF cl.attempt < cl.max_retries - 1
                                  THEN Append(@, WaitTime(kind, cl.attempt)) ELSE @,
                      !.attempt = @ + 1,
                      !.open = @ \ {cl.sockets}]
  /\ srv' = NoServer
  /\ ClientFrame

Return_NoClose(env) ==
  /\ cl' = [cl EXCEPT !.pc = "returned", !.result = env, !.returned_at = cl.attempt + 1]
  /\ UNCHANGED srv
  /\ ClientFrame

\* return result; finally: sock.close()
Return(env) ==
  /\ cl' = [cl EXCEPT !.pc = "returned", !.result = env, !.returned_at = cl.attempt + 1,
                      !.open = @ \ {cl.sockets}]
  /\ UNCHANGED srv
  /\ ClientFrame

\* sock.connect(server_address) succeeds
Connect ==
  /\ cl.pc = "connect"
  /\ cl' = [cl EXCEPT !.pc = "send"]
  /\ srv' \in [mode : ServerModes, stream : ServerResponses, pos : {0}]
  /\ ClientFrame

\* sock.connect raises ConnectionRefusedError, socket.timeout, or another error
ConnectFails ==
  /\ cl.pc = "connect"
  /\ \E kind \in {"refused", "timeout", "error"} : Failed(kind)

\* the response of this server is the envelope proses_string returned for the
\* command, so the server has run the command
ServerExecuted(stream) == Len(stream) >= 2 /\ stream[2] = Piece("members", ServerEnvelope)

\* the send loop goes through; sock.shutdown(socket.SHUT_WR): the server has the
\* whole command, and hist gets an entry when it runs it
SendCommand ==
  /\ cl.pc = "send"
  /\ cl' = [cl EXCEPT !.pc = "recv"]
  /\ hist' = IF ServerExecuted(srv.stream) THEN Append(hist, "executed") ELSE hist
  /\ UNCHANGED <<srv, storeVars, variant, concVars, sessVars, auxVars>>

\* sock.send returns 0 (ConnectionError), raises socket.error, or times out
SendFails ==
  /\ cl.pc = "send"
  /\ \E kind \in {"timeout", "error"} : Failed(kind)

\* chunk = sock.recv(65536); response_data += chunk; the terminator test
ClientRecv ==
  /\ cl.pc = "recv"
  /\ \E n \in 1 .. Len(srv.stream) - srv.pos :
       LET data == cl.response_data \o SubSeq(srv.stream, srv.pos + 1, srv.pos + n)
       IN /\ cl' = [cl EXCEPT !.response_data = data,
                              !.pc = IF HasTerminator(data) THEN "decode" ELSE "recv"]
          /\ srv' = [srv EXCEPT !.pos = @ + n]
  /\ ClientFrame

\* if not chunk: break
ClientRecvClosed ==
  /\ cl.pc = "recv"
  /\ srv.mode = "close"
  /\ srv.pos = Len(srv.stream)
  /\ cl' = [cl EXCEPT !.pc = "decode"]
  /\ UNCHANGED srv
  /\ ClientFrame

\* except socket.timeout: break with data buffered
ClientRecvTimeoutData ==
  /\ cl.pc = "recv"
  /\ srv.mode = "silent"
  /\ Len(cl.response_data) > 0
  /\ cl' = [cl EXCEPT !.pc = "decode"]
  /\ UNCHANGED srv
  /\ ClientFrame

ClientRecvTimeoutEmpty_Break ==
  /\ cl.pc = "recv"
  /\ srv.mode = "silent"
  /\ Len(cl.response_data) = 0
  /\ cl' = [cl EXCEPT !.pc = "decode"]
  /\ UNCHANGED srv
  /\ ClientFrame

\* except socket.timeout: raise socket.timeout with nothing buffered
ClientRecvTimeoutEmpty ==
  /\ cl.pc = "recv"
  /\ srv.mode = "silent"
  /\ Len(cl.response_data) = 0
  /\ Failed("timeout")

\* sock.recv raises ConnectionResetError
ClientRecvReset ==
  /\ cl.pc = "recv"
  /\ srv.mode = "reset"
  /\ Failed("error")

\* result = json.loads(clean_data); status = result.get('status', 'UNKNOWN');
\* return result
DecodeObject ==
  /\ cl.pc = "decode"
  /\ CleanData(cl.response_data) # <<>>
  /\ JsonLoads(CleanData(cl.response_data)).dict
  /\ Return(JsonLoads(CleanData(cl.response_data)).value)

\* json.loads gives a value that has no get: AttributeError, the attempt fails
DecodeNotObject ==
  /\ cl.pc = "decode"
  /\ CleanData(cl.response_data) # <<>>
  /\ JsonLoads(CleanData(cl.response_data)).ok
  /\ ~JsonLoads(CleanData(cl.response_data)).dict
  /\ Failed("error")

\* except json.JSONDecodeError: return the 'Invalid JSON response' envelope
DecodeInvalid ==
  /\ cl.pc = "decode"
  /\ CleanData(cl.response_data) # <<>>
  /\ ~JsonLoads(CleanData(cl.response_data)).ok
  /\ Return(InvalidJsonEnv)

\* raise ValueError("Empty response from server"): the attempt fails
DecodeEmpty ==
  /\ cl.pc = "decode"
  /\ CleanData(cl.response_data) = <<>>
  /\ Failed("error")

ClientNext ==
  \/ NewAttempt
  \/ AllFailed
  \/ Connect
  \/ ConnectFails
  \/ SendCommand
  \/ SendFails
  \/ ClientRecv
  \/ ClientRecvClosed
  \/ ClientRecvTimeoutData
  \/ ClientRecvTimeoutEmpty
  \/ ClientRecvReset
  \/ DecodeObject
  \/ DecodeNotObject
  \/ DecodeInvalid
  \/ DecodeEmpty

SpecClient == ClientInit /\ [][ClientNext]_vars

(***************************************************************************)
(* SpecRace: two sessions run FileInterface.upload for the same filename   *)
(* in the same directory at the same time, statement by statement, and a   *)
(* get follows when both have returned.                                    *)
(***************************************************************************)
\* what the two uploads write
RaceContents == Contents \cup {<<7, 7, 7>>}

\* the file they write
RaceName == NameATxt

\* os.write at offset pos of a file that holds old
WriteAt(old, pos, data) ==
  [i \in 1 .. (IF Len(old) > pos + Len(data) THEN Len(old) ELSE pos + Len(data)) |->
     IF i > pos /\ i <= pos + Len(data) THEN data[i - pos]
     ELSE IF i <= Len(old) THEN old[i] ELSE 0]

RaceInit ==
  /\ \E D \in SUBSET {RaceName} :
       fs = [d \in Depths |-> IF d = 1 THEN [n \in D |-> BytesHello] ELSE EmptyDir]
  /\ dirs = 1
  /\ cwd = [w \in {1} |-> 1]
  /\ up \in {u \in [1 .. 2 -> [pc : {"decoded"}, filedata : RaceContents, pos : {0},
                               env : {NoEnv}]] : u[1].filedata # u[2].filedata}
  /\ LastOff
  /\ SeqOff
  /\ ConcOff
  /\ SessOff
  /\ ClientOff
  /\ BenchOff
  /\ TsOff
  /\ RspOff

RaceFrame ==
  UNCHANGED <<dirs, cwd, seqVars, concVars, sessVars, clientVars, bench, ts, rsp>>

\* with open(filename, 'wb') as f: the file is created or truncated, and the
\* position of this open file is 0
UpOpen(w) ==
  /\ up[w].pc = "decoded"
  /\ fs' = WriteFile(fs, cwd[1], RaceName, <<>>)
  /\ up' = [up EXCEPT ![w].pc = "opened", ![w].pos = 0]
  /\ UNCHANGED last
  /\ RaceFrame

\* f.write(filedata) and the flush of leaving the with block: the bytes go to the
\* file at the position of this open file
UpWrite(w) ==
  /\ up[w].pc = "opened"
  /\ fs' = WriteFile(fs, cwd[1], RaceName,
                     WriteAt(fs[cwd[1]][RaceName], up[w].pos, up[w].filedata))
  /\ up' = [up EXCEPT ![w].pc = "written", ![w].pos = @ + Len(up[w].filedata)]
  /\ UNCHANGED last
  /\ RaceFrame

\* return dict(status='OK', data=f'File {filename} berhasil diupload')
UpReturn(w) ==
  /\ up[w].pc = "written"
  /\ up' = [up EXCEPT ![w].pc = "returned",
                      ![w].env = OkEnv("File berhasil diupload", RaceName)]
  /\ UNCHANGED <<fs, last>>
  /\ RaceFrame

\* the get that follows the two uploads
RaceGet ==
  /\ \A w \in 1 .. 2 : up[w].pc = "returned"
  /\ last.op = "none"
  /\ last' = [op |-> "get", params |-> <<RaceName>>,
              env |-> FileInterface_get(fs, dirs, cwd[1], <<RaceName>>).env,
              before |-> fs[cwd[1]]]
  /\ UNCHANGED <<fs, up>>
  /\ RaceFrame

RaceNext ==
  \/ \E w \in 1 .. 2 : UpOpen(w)
  \/ \E w \in 1 .. 2 : UpWrite(w)
  \/ \E w \in 1 .. 2 : UpReturn(w)
  \/ RaceGet

SpecRace == RaceInit /\ [][RaceNext]_vars

\* C33 as stated: when both uploads returned OK, the get that follows returns the
\* content of one of them, whole, and nothing else.
C33_LastWriteWins ==
  (last.op = "get" /\ \A w \in 1 .. 2 : up[w].env.status = "OK") =>
    /\ last.env.status = "OK"
    /\ b64decode(last.env.data_file).ok
    /\ b64decode(last.env.data_file).bytes \in {up[1].filedata, up[2].filedata}

(***************************************************************************)
(* SpecWire: one response as text.  The server builds it with json.dumps   *)
(* or by string formatting, appends the terminator and sends it; the       *)
(* client reads until the terminator is in what it has, and decodes.       *)
(***************************************************************************)
CrLfCrLf == <<"\r", "\n", "\r", "\n">>

JsonEscapeChar_Raw(c) == <<c>>

\* json.dumps of one character of a string (ASCII input)
JsonEscapeChar(c) ==
  IF c = "\"" THEN <<"\\", "\"">>
  ELSE IF c = "\\" THEN <<"\\", "\\">>
  ELSE IF c = "\n" THEN <<"\\", "n">>
  ELSE IF c = "\r" THEN <<"\\", "r">>
  ELSE IF c = "\t" THEN <<"\\", "t">>
  ELSE <<c>>

RECURSIVE JsonEscape(_)
JsonEscape(t) == IF t = <<>> THEN <<>> ELSE JsonEscapeChar(Head(t)) \o JsonEscape(Tail(t))

\* json.dumps of a string
JsonDumpsStr(t) == <<"\"">> \o JsonEscape(t) \o <<"\"">>

\* json.dumps(dict(status=..., data=...)) with a string as data
JsonDumpsEnvelope(status, data) ==
  <<"{", "\"", "s", "t", "a", "t", "u", "s", "\"", ":", " ">> \o JsonDumpsStr(status)
    \o <<",", " ", "\"", "d", "a", "t", "a", "\"", ":", " ">> \o JsonDumpsStr(data) \o <<"}">>

\* json.dumps(dict(status='OK', data_namafile=..., data_file=...))
JsonDumpsFile(namafile, file) ==
  <<"{", "\"", "s", "t", "a", "t", "u", "s", "\"", ":", " ">> \o JsonDumpsStr(<<"O", "K">>)
    \o <<",", " ", "\"", "d", "a", "t", "a", "_", "n", "a", "m", "a", "f", "i", "l", "e", "\"",
      ":", " ">> \o JsonDumpsStr(namafile)
    \o <<",", " ", "\"", "d", "a", "t", "a", "_", "f", "i", "l", "e", "\"", ":", " ">> \o JsonDumpsStr(file) \o <<"}">>

\* f'{{"status": "ERROR", "data": "{message}"}}'
FormatError(message) ==
  <<"{", "\"", "s", "t", "a", "t", "u", "s", "\"", ":", " ", "\"", "E", "R", "R", "O", "R",
      "\"", ",", " ", "\"", "d", "a", "t", "a", "\"", ":", " ", "\"">>
    \o message \o <<"\"", "}">>

TextError == <<"E", "R", "R", "O", "R">>

\* 'File {filename} tidak ditemukan'
TextNotFound(filename) ==
  <<"F", "i", "l", "e", " ">> \o filename \o <<" ", "t", "i", "d", "a", "k", " ", "d", "i", "t", "e", "m", "u", "k", "a", "n">>

\* texts a request can put into an envelope: a plain name, and names with a quote,
\* a backslash, and the terminator in them
WireNames ==
  {<<"a", ".", "t", "x", "t">>, <<"a", "\"", "b">>, <<"a", "\\", "b">>,
   <<"a", "\r", "\n", "\r", "\n", "b">>, <<"\r", "\n", "\r", "\n">>}

\* str(e) of what FileProtocol() raises when files is a regular file
TextNotADirectory ==
  <<"[", "E", "r", "r", "n", "o", " ", "2", "0", "]", " ", "N", "o", "t", " ", "a", " ", "d",
      "i", "r", "e", "c", "t", "o", "r", "y", ":", " ", "'", "f", "i", "l", "e", "s", "/", "'">>

TextBusy ==
  <<"S", "e", "r", "v", "e", "r", " ", "b", "u", "s", "y", ",", " ", "t", "r", "y", " ", "a",
      "g", "a", "i", "n", " ", "l", "a", "t", "e", "r">>

TextTimeout ==
  <<"P", "r", "o", "c", "e", "s", "s", "i", "n", "g", " ", "t", "i", "m", "e", "o", "u", "t">>

TextProcessingError ==
  <<"P", "r", "o", "c", "e", "s", "s", "i", "n", "g", " ", "e", "r", "r", "o", "r", ":", " ">>

TextProcessingFailed ==
  <<"P", "r", "o", "c", "e", "s", "s", "i", "n", "g", " ", "f", "a", "i", "l", "e", "d", ":",
      " ">>

\* str(e) of BrokenProcessPool
TextBrokenPool ==
  <<"A", " ", "p", "r", "o", "c", "e", "s", "s", " ", "i", "n", " ", "t", "h", "e", " ", "p",
      "r", "o", "c", "e", "s", "s", " ", "p", "o", "o", "l", " ", "w", "a", "s", " ", "t",
      "e", "r", "m", "i", "n", "a", "t", "e", "d", " ", "a", "b", "r", "u", "p", "t", "l",
      "y", " ", "w", "h", "i", "l", "e", " ", "t", "h", "e", " ", "f", "u", "t", "u", "r",
      "e", " ", "w", "a", "s", " ", "r", "u", "n", "n", "i", "n", "g", " ", "o", "r", " ",
      "p", "e", "n", "d", "i", "n", "g", ".">>

\* the response texts of the servers, before the terminator
WireBodies ==
  {JsonDumpsEnvelope(TextError, TextNotFound(n)) : n \in WireNames}
  \cup {JsonDumpsFile(n, <<"a", "G", "k", "=">>) : n \in WireNames}
  \cup {FormatError(TextBusy), FormatError(TextTimeout),
        FormatError(TextProcessingError \o TextNotADirectory),
        FormatError(TextProcessingError),
        FormatError(TextProcessingFailed \o TextBrokenPool)}

\* the first index at or after i where pat begins in data, or 0
RECURSIVE IndexOfFrom(_, _, _)
IndexOfFrom(data, pat, i) ==
  IF i + Len(pat) - 1 > Len(data) THEN 0
  ELSE IF SubSeq(data, i, i + Len(pat) - 1) = pat THEN i
  ELSE IndexOfFrom(data, pat, i + 1)

\* data.replace(pat, "")
RECURSIVE RemoveAll(_, _)
RemoveAll(data, pat) ==
  LET i == IndexOfFrom(data, pat, 1)
  IN IF i = 0 THEN data
     ELSE SubSeq(data, 1, i - 1) \o RemoveAll(SubSeq(data, i + Len(pat), Len(data)), pat)

\* the number of places where pat begins in data
CountOf(data, pat) ==
  Cardinality({i \in 1 .. Len(data) : IndexOfFrom(data, pat, i) = i})

JsonFail == [ok |-> FALSE, next |-> 0, val |-> <<>>]

JsonUnescape(c) ==
  IF c = "n" THEN "\n" ELSE IF c = "r" THEN "\r" ELSE IF c = "t" THEN "\t" ELSE c

\* json.loads inside a string, from position j: to the closing quote
RECURSIVE JsonScanStr(_, _, _)
JsonScanStr(s, j, done) ==
  IF j > Len(s) THEN JsonFail
  ELSE IF s[j] = "\"" THEN [ok |-> TRUE, next |-> j + 1, val |-> done]
  ELSE IF s[j] = "\\" THEN
    IF j + 1 <= Len(s) /\ s[j + 1] \in {"\"", "\\", "/", "b", "f", "n", "r", "t"}
      THEN JsonScanStr(s, j + 2, Append(done, JsonUnescape(s[j + 1])))
      ELSE JsonFail
  ELSE IF s[j] \in {"\r", "\n", "\t"} THEN JsonFail
  ELSE JsonScanStr(s, j + 1, Append(done, s[j]))

\* a string value at position i
JsonStr(s, i) ==
  IF i <= Len(s) /\ s[i] = "\"" THEN JsonScanStr(s, i + 1, <<>>) ELSE JsonFail

RECURSIVE JsonSkip(_, _)
JsonSkip(s, i) == IF i <= Len(s) /\ s[i] \in Whitespace THEN JsonSkip(s, i + 1) ELSE i

\* the members of an object from position i, where a key begins: the keys and
\* string values up to the closing brace, which must end the text
RECURSIVE JsonMembers(_, _, _)
JsonMembers(s, i, done) ==
  LET k == JsonStr(s, JsonSkip(s, i))
      c == JsonSkip(s, k.next)
      v == JsonStr(s, JsonSkip(s, c + 1))
      e == JsonSkip(s, v.next)
  IN IF ~k.ok \/ c > Len(s) \/ s[c] # ":" THEN [ok |-> FALSE, members |-> <<>>]
     ELSE IF ~v.ok \/ e > Len(s) THEN [ok |-> FALSE, members |-> <<>>]
     ELSE IF s[e] = "}" THEN
       IF JsonSkip(s, e + 1) > Len(s)
         THEN [ok |-> TRUE, members |-> Append(done, <<k.val, v.val>>)]
         ELSE [ok |-> FALSE, members |-> <<>>]
     ELSE IF s[e] = "," THEN JsonMembers(s, e + 1, Append(done, <<k.val, v.val>>))
     ELSE [ok |-> FALSE, members |-> <<>>]

\* json.loads(text) for a text that is an object of string members
JsonLoadsText(text) ==
  LET i == JsonSkip(text, 1)
  IN IF i <= Len(text) /\ text[i] = "{"
       THEN JsonMembers(text, i + 1, <<>>)
       ELSE [ok |-> FALSE, members |-> <<>>]

\* result.get(key) is there
HasKey(members, key) == \E m \in 1 .. Len(members) : members[m][1] = key

WireInit ==
  /\ rsp \in [pc : {"send"}, body : WireBodies, bytes_sent : {0}, wire : {<<>>},
              response_data : {<<>>}, result : {[ok |-> FALSE, members |-> <<>>]}]
  /\ fs = [d \in Depths |-> EmptyDir]
  /\ dirs = 0
  /\ cwd = [w \in {1} |-> 0]
  /\ LastOff
  /\ SeqOff
  /\ ConcOff
  /\ SessOff
  /\ ClientOff
  /\ UpOff
  /\ BenchOff
  /\ TsOff

WireFrame ==
  UNCHANGED <<storeVars, seqVars, concVars, sessVars, clientVars, up, bench, ts>>

\* response = hasil + "\r\n\r\n"; sent = connection.send(chunk); bytes_sent += sent
WireSend ==
  /\ rsp.pc \in {"send", "sent"}
  /\ LET response_bytes == rsp.body \o CrLfCrLf
     IN /\ rsp.bytes_sent < Len(response_bytes)
        /\ \E sent \in 1 .. Min(send_chunk_size, Len(response_bytes) - rsp.bytes_sent) :
             rsp' = [rsp EXCEPT
                       !.wire = @ \o SubSeq(response_bytes, rsp.bytes_sent + 1,
                                            rsp.bytes_sent + sent),
                       !.bytes_sent = @ + sent,
                       !.pc = IF rsp.bytes_sent + sent = Len(response_bytes)
                                THEN "sent" ELSE "send"]
  /\ WireFrame

\* chunk = sock.recv(65536); response_data += chunk; if b"\r\n\r\n" in
\* response_data: break
WireRecv ==
  /\ rsp.pc \in {"send", "sent"}
  /\ Len(rsp.response_data) < Len(rsp.wire)
  /\ rsp' = [rsp EXCEPT !.response_data = rsp.wire,
                        !.pc = IF IndexOfFrom(rsp.wire, CrLfCrLf, 1) # 0
                                 THEN "decode" ELSE rsp.pc]
  /\ WireFrame

\* clean_data = response_data.decode().replace("\r\n\r\n", "").strip();
\* result = json.loads(clean_data)
WireDecode ==
  /\ rsp.pc = "decode"
  /\ rsp' = [rsp EXCEPT !.pc = "done",
                        !.result = JsonLoadsText(Strip(RemoveAll(rsp.response_data, CrLfCrLf)))]
  /\ WireFrame

WireNext == WireSend \/ WireRecv \/ WireDecode

SpecWire == WireInit /\ [][WireNext]_vars

\* C36: a response the server has written whole holds CR LF CR LF once, as its
\* last four characters, and the text before it is a JSON object with a status;
\* the client stops reading only when it has the whole response, and what it
\* decodes is that object.
C36_ResponseWellFormed ==
  /\ rsp.bytes_sent = Len(rsp.body) + 4 =>
       /\ CountOf(rsp.wire, CrLfCrLf) = 1
       /\ SubSeq(rsp.wire, Len(rsp.wire) - 3, Len(rsp.wire)) = CrLfCrLf
       /\ JsonLoadsText(SubSeq(rsp.wire, 1, Len(rsp.wire) - 4)).ok
       /\ HasKey(JsonLoadsText(SubSeq(rsp.wire, 1, Len(rsp.wire) - 4)).members,
                 <<"s", "t", "a", "t", "u", "s">>)
  /\ rsp.pc \in {"decode", "done"} =>
       /\ rsp.bytes_sent = Len(rsp.body) + 4
       /\ rsp.response_data = rsp.wire
  /\ rsp.pc = "done" =>
       /\ rsp.result.ok
       /\ HasKey(rsp.result.members, <<"s", "t", "a", "t", "u", "s">>)
       /\ rsp.result = JsonLoadsText(rsp.body)

\* the envelope that names a file with the terminator in its name was decoded
C36_Witness ==
  /\ rsp.pc = "done"
  /\ rsp.result.ok
  /\ Len(rsp.result.members) = 2
  /\ rsp.result.members[2][2] = TextNotFound(<<"a", "\r", "\n", "\r", "\n", "b">>)

(***************************************************************************)
(* SpecBench: one run_stress_test of file_stresstest.py: the main thread   *)
(* starts worker_count threads running run_worker, which take the          *)
(* semaphore, wait at the barrier, work, write their slot of results and   *)
(* release the semaphore; SIGINT sets shutdown_flag at any time.           *)
(***************************************************************************)
\* the largest worker_count of a run
MaxWorkerCount == 3

\* min(worker_count, 10) for the 50MB and 100MB files (10 in the source)
large_file_limit == 2

FileSizeKeys == {"10MB", "50MB", "100MB"}

\* max_concurrent of run_stress_test
MaxConcurrent(file_size_key, worker_count) ==
  IF file_size_key \in {"50MB", "100MB"}
    THEN Min(worker_count, large_file_limit)
    ELSE worker_count

BenchInit ==
  /\ \E key \in FileSizeKeys, worker_count \in 1 .. MaxWorkerCount :
       bench = [pc |-> "start", file_size_key |-> key, worker_count |-> worker_count,
                semaphore |-> MaxConcurrent(key, worker_count),
                barrier |-> 0, started |-> 0, shutdown_flag |-> FALSE,
                worker |-> [i \in 0 .. MaxWorkerCount - 1 |-> "new"],
                results |-> [i \in 0 .. MaxWorkerCount - 1 |-> "None"]]
  /\ fs = [d \in Depths |-> EmptyDir]
  /\ dirs = 0
  /\ cwd = [w \in {1} |-> 0]
  /\ LastOff
  /\ SeqOff
  /\ ConcOff
  /\ SessOff
  /\ ClientOff
  /\ UpOff
  /\ TsOff
  /\ RspOff

BenchFrame ==
  UNCHANGED <<storeVars, seqVars, concVars, sessVars, clientVars, up, ts, rsp>>

\* signal_handler: shutdown_flag.set()
Sigint ==
  /\ bench.pc # "off"
  /\ ~bench.shutdown_flag
  /\ bench' = [bench EXCEPT !.shutdown_flag = TRUE]
  /\ BenchFrame

\* for i in range(worker_count): t = threading.Thread(...); t.start()
StartWorker ==
  /\ bench.pc = "start"
  /\ bench.started < bench.worker_count
  /\ ~bench.shutdown_flag
  /\ bench' = [bench EXCEPT !.started = @ + 1, !.worker[bench.started] = "acquire"]
  /\ BenchFrame

\* if shutdown_flag.is_set(): return False, inside the loop that starts the workers
AbortStart ==
  /\ bench.pc = "start"
  /\ bench.started < bench.worker_count
  /\ bench.shutdown_flag
  /\ bench' = [bench EXCEPT !.pc = "aborted"]
  /\ BenchFrame

\* the loop is over: the main thread goes on to join the workers
AllStarted ==
  /\ bench.pc = "start"
  /\ bench.started = bench.worker_count
  /\ bench' = [bench EXCEPT !.pc = "join"]
  /\ BenchFrame

\* with semaphore: acquire
Acquire(i) ==
  /\ bench.worker[i] = "acquire"
  /\ bench.semaphore > 0
  /\ bench' = [bench EXCEPT !.semaphore = @ - 1, !.worker[i] = "barrier"]
  /\ BenchFrame

\* barrier.wait(): this thread arrives
BarrierArrive(i) ==
  /\ bench.worker[i] = "barrier"
  /\ bench' = [bench EXCEPT !.barrier = @ + 1, !.worker[i] = "waiting"]
  /\ BenchFrame

\* barrier.wait() returns once worker_count threads have arrived
BarrierPass(i) ==
  /\ bench.worker[i] = "waiting"
  /\ bench.barrier = bench.worker_count
  /\ bench' = [bench EXCEPT !.worker[i] = "run"]
  /\ BenchFrame

\* after the delay: the Shutdown result when the flag is set, or else the
\* operation and results[index] = {...}
WriteResult(i) ==
  /\ bench.worker[i] = "run"
  /\ \E r \in (IF bench.shutdown_flag THEN {"Shutdown"} ELSE {"success", "failed"}) :
       bench' = [bench EXCEPT !.results[i] = r, !.worker[i] = "release"]
  /\ BenchFrame

\* leaving the with block: release
Release(i) ==
  /\ bench.worker[i] = "release"
  /\ bench' = [bench EXCEPT !.semaphore = @ + 1, !.worker[i] = "done"]
  /\ BenchFrame

\* a step of worker i
run_worker(i) ==
  Acquire(i) \/ BarrierArrive(i) \/ BarrierPass(i) \/ WriteResult(i) \/ Release(i)

BenchNext ==
  \/ Sigint
  \/ StartWorker
  \/ AbortStart
  \/ AllStarted
  \/ \E i \in 0 .. MaxWorkerCount - 1 : Acquire(i)
  \/ \E i \in 0 .. MaxWorkerCount - 1 : BarrierArrive(i)
  \/ \E i \in 0 .. MaxWorkerCount - 1 : BarrierPass(i)
  \/ \E i \in 0 .. MaxWorkerCount - 1 : WriteResult(i)
  \/ \E i \in 0 .. MaxWorkerCount - 1 : Release(i)

SpecBench == BenchInit /\ [][BenchNext]_vars

\* the main thread and every started thread keep running
SpecBenchFair ==
  /\ SpecBench
  /\ WF_vars(StartWorker \/ AbortStart \/ AllStarted)
  /\ \A i \in 0 .. MaxWorkerCount - 1 : WF_vars(run_worker(i))

\* C38 as stated: every started worker passes the barrier, writes its slot of
\* results and releases the semaphore, also when shutdown is requested while the
\* workers are being started.
C38_WorkersFinish ==
  \A i \in 0 .. MaxWorkerCount - 1 :
    (bench.worker[i] # "new")
      ~> (bench.worker[i] = "done" /\ bench.results[i] # "None")

(***************************************************************************)
(* Tugas 3: file_interface.py and file_protocol.py of the earlier file     *)
(* server. FileInterface.__init__ only enters files/, the methods take     *)
(* params[0] without a length check, and proses_string is shlex.split,     *)
(* getattr and json.dumps inside one try.                                  *)
(***************************************************************************)
\* None, what get returns for an empty filename
None == NoEnv

\* FileInterface.list of Tugas 3
Tugas3_list(f, ds, d, params) ==
  [env |-> ListEnv(ListedNames(f, d)), fs |-> f]

\* FileInterface.get of Tugas 3
Tugas3_get(f, ds, d, params) ==
  [env |-> IF Len(params) = 0 THEN ErrorEnv("list index out of range", <<>>)
           ELSE IF params[1] = <<>> THEN None
           ELSE IF IsDir(ds, d, params[1]) THEN ErrorEnv("IsADirectoryError", params[1])
           ELSE IF params[1] \notin DOMAIN f[d]
             THEN ErrorEnv("No such file or directory", params[1])
           ELSE FileEnv(params[1], b64encode(f[d][params[1]])),
   fs |-> f]

\* FileInterface.delete of Tugas 3
Tugas3_delete(f, ds, d, params) ==
  IF Len(params) = 0 THEN [env |-> ErrorEnv("list index out of range", <<>>), fs |-> f]
  ELSE IF params[1] = <<>> THEN [env |-> ErrorEnv("Nama file kosong", <<>>), fs |-> f]
  ELSE IF IsDir(ds, d, params[1])
    THEN [env |-> ErrorEnv("IsADirectoryError", params[1]), fs |-> f]
  ELSE IF params[1] \notin DOMAIN f[d]
    THEN [env |-> ErrorEnv("No such file or directory", params[1]), fs |-> f]
  ELSE [env |-> OkEnv("File berhasil dihapus", params[1]),
        fs |-> RemoveFile(f, d, params[1])]

\* FileInterface.upload of Tugas 3
Tugas3_upload(f, ds, d, params) ==
  IF Len(params) < 2 THEN [env |-> ErrorEnv("list index out of range", <<>>), fs |-> f]
  ELSE IF params[1] = <<>> \/ params[2] = <<>>
    THEN [env |-> ErrorEnv("Nama file atau isi file kosong", <<>>), fs |-> f]
  ELSE IF ~b64decode(params[2]).ok
    THEN [env |-> ErrorEnv("binascii.Error", <<>>), fs |-> f]
  ELSE IF IsDir(ds, d, params[1])
    THEN [env |-> ErrorEnv("IsADirectoryError", params[1]), fs |-> f]
  ELSE [env |-> OkEnv("File berhasil diupload", params[1]),
        fs |-> WriteFile(f, d, params[1], b64decode(params[2]).bytes)]

\* json.dumps(cl): the word null for None, an object for a dictionary
Tugas3_json_dumps(result) ==
  IF result = None THEN <<Piece("null", NoEnv)>> ELSE JsonText(result)

\* cl = getattr(self.file, command)(params); an attribute that is missing, that
\* raises when called with params or whose value json.dumps refuses ends in the
\* except clause
Tugas3_call(f, ds, d, command, params) ==
  IF command = VerbList THEN Tugas3_list(f, ds, d, params)
  ELSE IF command = VerbGet THEN Tugas3_get(f, ds, d, params)
  ELSE IF command = VerbDelete THEN Tugas3_delete(f, ds, d, params)
  ELSE IF command = VerbUpload THEN Tugas3_upload(f, ds, d, params)
  ELSE [env |-> ErrorEnv("request tidak dikenali", <<>>), fs |-> f]

\* FileProtocol.proses_string of Tugas 3: the text it returns and the file system
\* it leaves
Tugas3_proses_string(f, ds, d, string_datamasuk) ==
  LET sp == shlex_split(string_datamasuk)
      r == IF ~sp.ok THEN [env |-> ErrorEnv("request tidak dikenali", <<>>), fs |-> f]
           ELSE IF sp.parts = <<>> THEN [env |-> ErrorEnv("perintah kosong", <<>>), fs |-> f]
           ELSE Tugas3_call(f, ds, d, Lower(sp.parts[1]), Tail(sp.parts))
  IN [text |-> Tugas3_json_dumps(r.env), fs |-> r.fs]

\* an empty filename in quotes, alone and followed by another argument
EmptyNameTails == {<<" ", "\"", "\"">>, <<" ", "'", "'", " ", "x">>}

Tugas3Init ==
  /\ \E st \in ProtoStores : fs = [d \in Depths |-> IF d = 1 THEN st ELSE EmptyDir]
  /\ dirs = 1
  /\ cwd = [w \in {1} |-> 1]
  /\ LastOff
  /\ SeqOff
  /\ ConcOff
  /\ SessOff
  /\ ClientOff
  /\ AuxOff

\* hasil = fp.proses_string(verb + tail)
Tugas3Call(verb, tail) ==
  LET r == Tugas3_proses_string(fs, dirs, cwd[1], verb \o tail)
  IN /\ fs' = r.fs
     /\ last' = [op |-> "tugas3", params |-> <<verb, tail>>, env |-> NoEnv,
                 before |-> fs[cwd[1]], text |-> r.text]
     /\ UNCHANGED <<dirs, cwd, seqVars, concVars, sessVars, clientVars, auxVars>>

Tugas3Unknown == \E verb \in UnknownVerbs, tail \in ProtoTails : Tugas3Call(verb, tail)

Tugas3Known == \E verb \in StoreVerbs, tail \in ProtoTails : Tugas3Call(verb, tail)

Tugas3Blank == \E blank \in Blanks : Tugas3Call(<<>>, blank)

Tugas3EmptyName == \E verb \in StoreVerbs, tail \in EmptyNameTails : Tugas3Call(verb, tail)

Tugas3Next == Tugas3Unknown \/ Tugas3Known \/ Tugas3Blank \/ Tugas3EmptyName

SpecTugas3 == Tugas3Init /\ [][Tugas3Next]_vars

\* C39 as stated: proses_string of Tugas 3 returns, for every input string, a
\* JSON object whose status is OK or ERROR.
C39_AlwaysStatusObject ==
  last.op = "tugas3" =>
    /\ Len(last.text) = 3
    /\ last.text[1].tok = "{"
    /\ last.text[2].tok = "members"
    /\ last.text[2].env.status \in {"OK", "ERROR"}
    /\ last.text[3].tok = "}"

(***************************************************************************)
(* SpecTime: one connection of time_server.py as handle_client serves it.  *)
(* A message is what one recv(1024) returns: a sequence of characters, in  *)
(* which ByteFF stands for a byte that is not UTF-8.                       *)
(***************************************************************************)
\* the most messages a connection brings before the peer closes
MaxMessages == 3

\* the byte 0xFF, which no UTF-8 text contains
ByteFF == "0xFF"

TextQuit == <<"Q", "U", "I", "T">>

TextTime == <<"T", "I", "M", "E">>

TextInvalidRequest ==
  <<"I", "N", "V", "A", "L", "I", "D", " ", "R", "E", "Q", "U", "E", "S", "T">>

CrLf == <<"\r", "\n">>

\* what a peer sends in one piece
TimeMessages ==
  {TextTime \o CrLf, TextTime, Lower(TextTime) \o CrLf, TextTime \o <<"X">>,
   <<" ">> \o TextTime \o <<" ", "1">>,
   TextQuit \o CrLf, Lower(TextQuit), <<" ", "Q", "u", "i", "t", "\n">>,
   TextQuit \o <<"X">>, CrLf, <<"F", "O", "O">>,
   <<ByteFF>>, TextTime \o <<ByteFF>> \o CrLf}

\* datetime.now() as hours, minutes, seconds
Clocks == {<<0, 0, 0>>, <<9, 5, 30>>, <<23, 59, 59>>}

\* %H, %M, %S: two digits
TwoDigits(n) == <<Digits[(n \div 10) + 1], Digits[(n % 10) + 1]>>

\* now.strftime("%H:%M:%S")
strftime(now) ==
  TwoDigits(now[1]) \o <<":">> \o TwoDigits(now[2]) \o <<":">> \o TwoDigits(now[3])

\* f"JAM {current_time}\r\n"
JamResponse(now) == <<"J", "A", "M", " ">> \o strftime(now) \o CrLf

\* "INVALID REQUEST\r\n"
InvalidResponse == TextInvalidRequest \o CrLf

\* bytes.decode("utf-8") succeeds
Decodes(raw) == \A i \in DOMAIN raw : raw[i] # ByteFF

TimeInit ==
  /\ ts = [pc |-> "recv", closed |-> FALSE, received |-> 0, data |-> <<>>,
           sent |-> <<>>, exit |-> "none"]
  /\ fs = [d \in Depths |-> EmptyDir]
  /\ dirs = 0
  /\ cwd = [w \in {1} |-> 0]
  /\ LastOff
  /\ SeqOff
  /\ ConcOff
  /\ SessOff
  /\ ClientOff
  /\ UpOff
  /\ BenchOff
  /\ RspOff

TimeFrame ==
  UNCHANGED <<storeVars, seqVars, concVars, sessVars, clientVars, up, bench, rsp>>

\* leaving the loop, by break or by an exception: finally closes the socket
TimeExit(raw, how) ==
  [ts EXCEPT !.pc = "closed", !.closed = TRUE, !.data = raw, !.exit = how,
             !.received = IF raw = <<>> THEN @ ELSE @ + 1]

\* client_socket.send(response): the reply goes out, or the send raises because
\* the peer has gone
TimeSend(raw, response) ==
  \/ ts' = [ts EXCEPT !.data = raw, !.received = @ + 1, !.sent = Append(@, response)]
  \/ ts' = TimeExit(raw, "send raised")

\* one pass of the while loop for the bytes raw that recv returned
TimeServe(raw) ==
  IF ~Decodes(raw) THEN ts' = TimeExit(raw, "decode raised")
  ELSE LET data == Strip(raw)
       IN IF Upper(data) = TextQuit THEN ts' = TimeExit(raw, "quit")
          ELSE IF StartsWith(data, TextTime)
            THEN \E now \in Clocks : TimeSend(raw, JamResponse(now))
            ELSE TimeSend(raw, InvalidResponse)

\* recv returns a message
TimeRequest ==
  /\ ts.pc = "recv"
  /\ ts.received < MaxMessages
  /\ \E raw \in TimeMessages : TimeServe(raw)
  /\ TimeFrame

\* recv returns b'': the peer closed
TimePeerClose ==
  /\ ts.pc = "recv"
  /\ ts' = TimeExit(<<>>, "peer closed")
  /\ TimeFrame

\* recv raises: the connection was reset
TimeRecvRaises ==
  /\ ts.pc = "recv"
  /\ ts' = TimeExit(<<>>, "recv raised")
  /\ TimeFrame

TimeNext == TimeRequest \/ TimePeerClose \/ TimeRecvRaises

SpecTime == TimeInit /\ [][TimeNext]_vars

\* the step received a message and the peer was there to take the reply
TimeReceived == ts'.received = ts.received + 1 /\ ts'.exit # "send raised"

\* C40 as stated: a message that is QUIT in any letter case once trimmed closes the
\* connection without a reply; every other message is answered by exactly one
\* reply, JAM hh:mm:ss CR LF when the trimmed message starts with TIME and INVALID
\* REQUEST CR LF otherwise, and leaves the connection open; the socket is closed
\* on every exit path.
C40_OneReplyPerMessage ==
  /\ [](ts.pc = "closed" => ts.closed)
  /\ [][TimeReceived =>
          IF Decodes(ts'.data) /\ Upper(Strip(ts'.data)) = TextQuit
            THEN ts'.pc = "closed" /\ ts'.sent = ts.sent
            ELSE /\ ts'.pc = "recv"
                 /\ \E response \in {InvalidResponse} \cup {JamResponse(now) : now \in Clocks} :
                      /\ ts'.sent = Append(ts.sent, response)
                      /\ (response = InvalidResponse)
                           <=> ~StartsWith(Strip(ts'.data), TextTime)]_vars

(***************************************************************************)
(* Claims about the client, checked under SpecClient.                      *)
(***************************************************************************)
\* the call has returned after every attempt failed
AllAttemptsFailed == cl.pc = "returned" /\ cl.returned_at = 0

\* C16 as stated: send_command never raises and returns an envelope carrying a
\* status, which is ERROR when all max_retries attempts failed.
C16_ReturnsStatus ==
  /\ cl.pc \in {"loop", "connect", "send", "recv", "decode", "returned"}
  /\ cl.pc = "returned" =>
       /\ "status" \in cl.result.keys
       /\ AllAttemptsFailed => cl.result.status = "ERROR"

\* C16, amended: send_command never raises; it returns the ERROR envelope of
\* the failed attempts when all max_retries attempts failed, the ERROR envelope
\* of the invalid response, or the object decoded from the response as it is,
\* which carries a status exactly when the server put one in.
C16_ReturnsEnvelope ==
  /\ cl.pc \in {"loop", "connect", "send", "recv", "decode", "returned"}
  /\ cl.pc = "returned" =>
       \/ /\ AllAttemptsFailed
          /\ Len(cl.failures) = cl.max_retries
          /\ cl.result.status = "ERROR"
          /\ cl.result.data = <<"All connection attempts failed", <<cl.max_retries>>>>
       \/ /\ ~AllAttemptsFailed
          /\ cl.result.status = "ERROR"
          /\ cl.result.data[1] = "Invalid JSON response"
       \/ /\ ~AllAttemptsFailed
          /\ Len(cl.response_data) >= 3
          /\ SubSeq(cl.response_data, 1, 3) = JsonText(cl.result)

\* three attempts failed in three different ways and the call returned
C16_Witness ==
  /\ AllAttemptsFailed
  /\ cl.max_retries = 3
  /\ cl.failures = <<"refused", "timeout", "error">>
  /\ cl.result.status = "ERROR"

\* the server refused twice, then accepted and answered with its envelope
RefusedTwiceThenAnswered ==
  /\ cl.max_retries = 3
  /\ cl.failures = <<"refused", "refused">>
  /\ cl.pc = "returned"
  /\ srv.mode = "close"
  /\ srv.stream = Response(ServerEnvelope)

\* C17: against a server that refuses the first two attempts and then accepts and
\* answers, send_command with max_retries = 3 returns the server's envelope from
\* the third attempt after exactly two pauses, none longer than the cap.
C17_ThirdAttemptAnswers ==
  RefusedTwiceThenAnswered =>
    /\ cl.result = ServerEnvelope
    /\ cl.returned_at = 3
    /\ Len(cl.waits) = 2
    /\ \A k \in DOMAIN cl.waits : cl.waits[k] <= BackoffCap

C17_Witness == RefusedTwiceThenAnswered /\ cl.result.status = "OK"

\* C18: at most max_retries attempts, each on a socket created for it; after
\* failed attempt k that is not the last the pause is min(2^k, 10) seconds, or 5
\* seconds when the connection was refused; no pause follows the last attempt.
C18_RetrySchedule ==
  /\ cl.sockets <= cl.max_retries
  /\ cl.pc \in {"connect", "send", "recv", "decode"} =>
       (cl.sockets = cl.attempt + 1 /\ cl.open = {cl.sockets})
  /\ cl.pc \in {"loop", "returned"} => cl.open = {}
  /\ Len(cl.waits) = Min(Len(cl.failures), IF cl.max_retries = 0 THEN 0 ELSE cl.max_retries - 1)
  /\ \A k \in DOMAIN cl.waits :
       cl.waits[k] = IF cl.failures[k] = "refused" THEN 5
                     ELSE IF Pow2(k - 1) < 10 THEN Pow2(k - 1) ELSE 10

\* the fifth attempt timed out and the pause after it was the cap
C18_Witness ==
  /\ cl.max_retries = MaxRetries
  /\ Len(cl.failures) = MaxRetries
  /\ cl.failures[1] = "refused"
  /\ cl.failures[5] = "timeout"
  /\ cl.waits[5] = BackoffCap
  /\ cl.pc = "returned"

\* the step returns the ERROR envelope that carries the decode failure
ReturnsDecodeError ==
  /\ cl'.pc = "returned"
  /\ cl'.result.status = "ERROR"
  /\ cl'.result.data = <<"Invalid JSON response", <<"JSONDecodeError">>>>
  /\ cl'.attempt = cl.attempt

C20_ReadEnds ==
  [][cl.pc = "recv" =>
       \/ /\ cl'.pc = "recv"
          /\ TerminatorAt(cl'.response_data, 1) = 0
       \/ /\ cl'.pc = "decode"
          /\ \/ TerminatorAt(cl'.response_data, 1) > 0
             \/ srv.mode = "close" /\ srv.pos = Len(srv.stream)
             \/ srv.mode = "silent" /\ Len(cl.response_data) > 0
       \/ /\ cl'.pc = "loop"
          /\ cl'.result = cl.result
          /\ cl'.attempt = cl.attempt + 1
          /\ \/ srv.mode = "silent" /\ Len(cl.response_data) = 0
             \/ srv.mode = "reset"]_vars

\* a read timed out with part of the response buffered and the read ended
C20_Witness ==
  /\ cl.pc = "decode"
  /\ srv.mode = "silent"
  /\ Len(cl.response_data) > 0
  /\ srv.pos < Len(srv.stream)
  /\ TerminatorAt(cl.response_data, 1) = 0

(***************************************************************************)
(* Claims about the protocol, checked under SpecProto.                     *)
(***************************************************************************)
\* the last step served a request with this verb
Served(verbs) == last.op = "proses_string" /\ last.params[1] \in verbs

\* C14: a request whose verb is none of list, get, upload, delete, also one that
\* names another attribute of the Store object, gets an ERROR envelope and leaves
\* the files as they were; for BOGUS the envelope names the command.
C14_UnknownVerbIsError ==
  Served(UnknownVerbs) =>
    /\ last.env.status = "ERROR"
    /\ fs[cwd[1]] = last.before
    /\ (last.params[1] = VerbBogus /\ last.params[2] # <<" ", "'">>)
         => last.env = ErrorEnv("Command tidak dikenali", Lower(VerbBogus))

\* BOGUS followed by a name of a stored file was answered
C14_Witness ==
  /\ Served({VerbBogus})
  /\ last.params[2] = <<" ">> \o NameATxt
  /\ NameATxt \in DOMAIN last.before
  /\ last.env.data = <<"Command tidak dikenali", Lower(VerbBogus)>>

\* C15: an empty or whitespace-only request gets the ERROR envelope of the empty
\* command, which is returned before anything is dispatched to the Store, and
\* the files stay as they were.
C15_BlankIsError ==
  (Served({<<>>}) /\ last.params[2] \in Blanks) =>
    /\ last.env = ErrorEnv("perintah kosong", <<>>)
    /\ fs[cwd[1]] = last.before

\* a request of a tab and a newline was answered on a directory with files
C15_Witness ==
  /\ Served({<<>>})
  /\ last.params[2] = <<"\t", "\n">>
  /\ last.before # EmptyDir
  /\ last.env.status = "ERROR"

(***************************************************************************)
(* Claims about the Store, checked under SpecStore.                        *)
(***************************************************************************)
\* the text is base64: characters of the alphabet in groups of four, the last
\* group padded with at most two '='
IsBase64Text(s) ==
  /\ Len(s) % 4 = 0
  /\ \E pads \in 0 .. 2 :
       /\ pads <= Len(s)
       /\ \A i \in 1 .. Len(s) :
            IF i <= Len(s) - pads THEN s[i] \in Range(B64Alphabet) ELSE s[i] = B64Pad

\* C24 as stated: an upload whose payload is not valid base64 returns ERROR and
\* leaves the files as they were.
C24_InvalidPayloadIsError ==
  (last.op = "upload" /\ Len(last.params) = 2 /\ ~IsBase64Text(last.params[2])) =>
    /\ last.env.status = "ERROR"
    /\ fs[cwd[1]] = last.before

\* the result of get(f) in the current state
GetNow(f) == FileInterface_get(fs, dirs, cwd[1], <<f>>).env

\* the result of list() in the current state
ListNow == FileInterface_list(fs, dirs, cwd[1], <<>>).env.data_list

\* the last call was upload(f, base64(b))
UploadedJust(f, b) == last.op = "upload" /\ last.params = <<f, b64encode(b)>>

\* upload(f, base64(b)) returned OK and get(f) gives back exactly b
RoundTrips(f, b) ==
  /\ last.env.status = "OK"
  /\ GetNow(f).status = "OK"
  /\ GetNow(f).data_namafile = f
  /\ b64decode(GetNow(f).data_file).ok
  /\ b64decode(GetNow(f).data_file).bytes = b

\* C3 as stated: for every filename f and every content b, the empty content
\* included, upload(f, base64(b)) returns OK and a following get(f) returns b.
C3_RoundTripAnyContent ==
  \A f \in Names : \A b \in Contents \cup {<<>>} :
    UploadedJust(f, b) => RoundTrips(f, b)

\* C3 amended: for every non-empty filename f that names no directory and every
\* non-empty content b, upload(f, base64(b)) returns OK and a following get(f)
\* returns OK with a data_file that decodes to exactly b.
C3_RoundTrip ==
  \A f \in Names : \A b \in Contents :
    (UploadedJust(f, b) /\ ~IsDir(dirs, cwd[1], f)) => RoundTrips(f, b)

\* C3 witness: a file that already held other bytes was uploaded again and reads back
C3_Witness ==
  /\ UploadedJust(NameNoDot, BytesOther)
  /\ NameNoDot \in DOMAIN last.before
  /\ last.before[NameNoDot] = BytesHello
  /\ GetNow(NameNoDot).status = "OK"

\* the directory as the last call found it
FsBefore == [fs EXCEPT ![cwd[1]] = last.before]

\* every filename other than f reads and lists as it did before the last call
OthersUntouched(f) ==
  \A g \in Names \ {f} :
    /\ GetNow(g) = FileInterface_get(FsBefore, dirs, cwd[1], <<g>>).env
    /\ g \in ListNow <=> g \in FileInterface_list(FsBefore, dirs, cwd[1], <<>>).env.data_list

\* f holds what an earlier upload(f, b1) wrote, and upload(f, base64(b2)) followed
UploadedAgain(f, b2) == UploadedJust(f, b2) /\ f \in DOMAIN last.before

\* get(f) returns b
Reads(f, b) ==
  /\ GetNow(f).status = "OK"
  /\ b64decode(GetNow(f).data_file).ok
  /\ b64decode(GetNow(f).data_file).bytes = b

\* C25 as stated: after upload(f, b1) followed by upload(f, b2), for any contents,
\* get(f) returns b2, and every other filename reads and lists as before.
C25_UploadOverwritesAnyContent ==
  \A f \in Names : \A b2 \in Contents \cup {<<>>} :
    UploadedAgain(f, b2) => (Reads(f, b2) /\ OthersUntouched(f))

\* C25, amended: after upload(f, b1) followed by upload(f, b2) with b2 not empty,
\* get(f) returns b2; an upload of empty content is refused and leaves b1; in both
\* cases every other filename reads and lists as before.
C25_UploadOverwrites ==
  \A f \in Names : \A b2 \in Contents \cup {<<>>} :
    UploadedAgain(f, b2) =>
      /\ Reads(f, IF b2 = <<>> THEN last.before[f] ELSE b2)
      /\ OthersUntouched(f)

\* a.txt was overwritten with other bytes while b and .h were stored too
C25_Witness ==
  /\ UploadedAgain(NameATxt, BytesOther)
  /\ last.before[NameATxt] = BytesHello
  /\ {NameNoDot, NameHidden} \subseteq DOMAIN last.before
  /\ Reads(NameATxt, BytesOther)

\* C26: the verb is case-insensitive: the last request, sent again with its verb
\* in lower case or in upper case and the same arguments on the same files, gets
\* the same envelope and leaves the same files.  Checked under SpecProto.
C26_VerbCaseInsensitive ==
  last.op = "proses_string" =>
    \A verb \in {Lower(last.params[1]), Upper(last.params[1])} :
      LET r == proses_string(FsBefore, dirs, cwd[1], verb \o last.params[2])
      IN r.env = last.env /\ r.fs = fs

\* 'Get a.txt' was answered with the file, as 'get a.txt' and 'GET a.txt' are
C26_Witness ==
  /\ last.op = "proses_string"
  /\ last.params = <<<<"G", "e", "t">>, <<" ">> \o NameATxt>>
  /\ last.env.status = "OK"
  /\ last.env.data_namafile = NameATxt

\* C4 as stated: for every filename f (with or without a dot, with or without a
\* leading dot) list() after a successful upload(f, b) includes f, and list()
\* after a successful delete(f) does not include f.
C4_ListFollowsUploadDelete ==
  /\ (last.op = "upload" /\ last.env.status = "OK") => last.params[1] \in ListNow
  /\ (last.op = "delete" /\ last.env.status = "OK") => last.params[1] \notin ListNow

\* C5: for every filename not present in the store, get and delete return an
\* envelope with status ERROR and leave the stored files and their contents unchanged.
C5_AbsentIsError ==
  (/\ last.op \in {"get", "delete"}
   /\ Len(last.params) = 1
   /\ last.params[1] \notin DOMAIN last.before)
  => (last.env.status = "ERROR" /\ fs[cwd[1]] = last.before)

\* C5 witness: delete of an absent name on a store that holds another file
C5_Witness ==
  /\ last.op = "delete"
  /\ last.params = <<NameATxt>>
  /\ NameATxt \notin DOMAIN last.before
  /\ NameNoDot \in DOMAIN last.before
  /\ last.env.status = "ERROR"

\* the last request was 'UPLOAD f p' for the filename and payload of a
UploadRequested(a) ==
  /\ last.op = "proses_string"
  /\ last.params = <<Upper(VerbUpload), UploadTail(a)>>

\* the last request was answered as the Store answers upload([f, p])
UploadCalledWith(a) ==
  LET r == FileInterface_upload(FsBefore, dirs, cwd[1], <<a.f, a.p>>)
  IN last.env = r.env /\ fs = r.fs

\* the number of single spaces in the stripped request
SpacesIn(s) == Cardinality({i \in 1 .. Len(s) : s[i] = " "})

\* a request that starts with UPLOAD and has fewer than three pieces is refused
\* by the protocol, with the files as they were
ShortUploadRefused ==
  (/\ last.op = "proses_string"
   /\ StartsWith(Upper(Strip(last.params[1] \o last.params[2])), <<"U", "P", "L", "O", "A", "D">>)
   /\ SpacesIn(Strip(last.params[1] \o last.params[2])) < 2) =>
    /\ last.env = ErrorEnv("Format UPLOAD tidak valid", <<>>)
    /\ fs[cwd[1]] = last.before

\* C31 as stated: 'UPLOAD f p' reaches the Store as upload([f, p]) for any payload
\* p without leading or trailing whitespace, and a request that starts with UPLOAD
\* and has fewer than three pieces is an ERROR with no Store call.
C31_UploadPassesAnyPayload ==
  /\ \A a \in UploadArgs : UploadRequested(a) => UploadCalledWith(a)
  /\ ShortUploadRefused

\* C31, amended: the same for a payload that is not empty; with an empty payload
\* the request has two pieces after the strip and is refused by the protocol.
C31_UploadPassesPayload ==
  /\ \A a \in UploadArgs :
       UploadRequested(a) =>
         IF a.p # <<>> THEN UploadCalledWith(a)
         ELSE last.env = ErrorEnv("Format UPLOAD tidak valid", <<>>) /\ fs[cwd[1]] = last.before
  /\ ShortUploadRefused

\* the payload with a space, a quote and a backslash was stored under b
C31_Witness ==
  /\ UploadRequested([f |-> NameNoDot, p |-> PayloadQuoted])
  /\ last.env = OkEnv("File berhasil diupload", NameNoDot)
  /\ NameNoDot \in DOMAIN fs[cwd[1]]
  /\ fs[cwd[1]][NameNoDot] = b64decode(<<"a", "G", "k", "=">>).bytes

\* the last request was verb followed by tail
Requested(verb, tail) == last.op = "proses_string" /\ last.params = <<verb, tail>>

\* C32 as stated: get and delete take a quoted filename with a space as one
\* argument, unbalanced quotes give an ERROR envelope, and the upload of a file
\* whose name has a space stores it under that name, where get then finds it.
C32_SpacedNameEveryVerb ==
  /\ \A tail \in {<<" ", "\"", "m", " ", "y", "\"">>, <<" ", "'", "m", " ", "y", "'">>} :
       /\ Requested(Upper(VerbGet), tail) =>
            last.env = FileInterface_get(FsBefore, dirs, cwd[1], <<NameSpaced>>).env
       /\ Requested(Upper(VerbDelete), tail) =>
            last.env = FileInterface_delete(FsBefore, dirs, cwd[1], <<NameSpaced>>).env
  /\ \A verb \in {Upper(VerbGet), Upper(VerbDelete)} :
       Requested(verb, <<" ", "\"", "m", " ", "y">>) =>
         (last.env = ErrorEnv("request tidak dikenali", <<>>) /\ fs[cwd[1]] = last.before)
  /\ Requested(Upper(VerbUpload), SpacedUploadTail) =>
       /\ last.env = OkEnv("File berhasil diupload", NameSpaced)
       /\ NameSpaced \in DOMAIN fs[cwd[1]]
       /\ fs[cwd[1]][NameSpaced] = BytesHello
       /\ FileInterface_get(fs, dirs, cwd[1], <<NameSpaced>>).env
            = FileEnv(NameSpaced, b64encode(BytesHello))

\* C34 as stated: in both servers active_connections stays within 0 .. max_workers,
\* and total_connections never goes down and is never below active_connections.
\* Checked under SpecConc.
C34_CountersInRange ==
  /\ [](/\ 0 <= active_connections
        /\ active_connections <= max_workers
        /\ active_connections <= total_connections)
  /\ [][total_connections' >= total_connections]_vars

\* C35 as stated: whatever fails between client and server, one call of
\* send_command makes the server run the command at most once.  Checked under
\* SpecClient.
C35_ExecutedAtMostOnce == Len(hist) <= 1

\* C37: at most one socket of the call is open at a time: none between attempts
\* and none after the return, whatever the outcome of the attempt, and an attempt
\* opens its socket only when no other is open.  Checked under SpecClient.
C37_OneSocketOpen ==
  /\ [](/\ Cardinality(cl.open) <= 1
        /\ cl.pc \in {"loop", "returned"} => cl.open = {})
  /\ [][cl'.sockets # cl.sockets =>
          (cl.open = {} /\ cl'.sockets = cl.sockets + 1 /\ cl'.open = {cl'.sockets})]_vars

\* the call returned the decoded response of its third socket, after a timeout
\* and a refusal, and every socket is closed
C37_Witness ==
  /\ cl.pc = "returned"
  /\ cl.sockets = 3
  /\ cl.returned_at = 3
  /\ cl.failures = <<"timeout", "refused">>
  /\ cl.open = {}

====
